---- MODULE Spec2Model ----
(***************************************************************************)
(* Cloud billing engine: wallet ledger (MySQL row + Mongo transaction      *)
(* archive), resource store (event log + projection + last_billed_until    *)
(* cursor) and billing engine (charge computation, bill persistence,       *)
(* wallet settlement, retry).                                               *)
(*                                                                         *)
(* Money is an integer number of sub-units; Quantum sub-units make one     *)
(* 0.000001, the step _format_amount quantizes to.  Stored strings (the    *)
(* archive's amount and balance_after, a bill's total and charge amounts)  *)
(* are represented by the value the string denotes, in sub-units.          *)
(* Time is an integer number of hours; NoTime stands for None.             *)
(*                                                                         *)
(* Every HTTP request is a process with its own database session.  A       *)
(* request advances one database round trip at a time, so requests of      *)
(* different processes interleave between round trips.                     *)
(***************************************************************************)
EXTENDS Integers, Sequences, FiniteSets, TLC

VARIABLES
    now,        \* the wall clock, datetime.utcnow()
    wallet,     \* user_wallets rows, by user_id
    archive,    \* transaction_archives documents: user -> transactions
    bills,      \* billing_cycles documents, in insertion order
    computes,   \* compute_resources documents, by resource_id
    procs,      \* the requests in flight: position and session/local state
    failures,   \* archive appends that raised so far
    pricing,    \* latest_prices: whether the row of the wallets' currency exists
    disks,      \* disk_resources documents, by resource_id
    fips,       \* floating_ip_resources documents, by resource_id
    dupes,      \* compute_resources documents inserted under a resource_id
                \* that already had one, in insertion order, by resource_id
    deliveries, \* the messages published to the work queue, by delivery tag:
                \* body, where the broker holds it, and what the consumer
                \* did with it
    batch,      \* MessageBatcher._batch: the deliveries waiting for a flush
    flushes,    \* the _process_batch calls under way
    request,    \* the BillingAPIClient._request call under way
    shutdown,   \* how far GracefulShutdown.shutdown has come
    ledger,     \* history: per user, the initial balance plus the signed
                \* amounts of the credits and debits that committed
    billed      \* history: the period_end of the latest compute_bill that
                \* went through the resources, NoTime after a resource event

vars ==
    <<now, wallet, archive, bills, computes, procs, failures, pricing, disks,
      fips, dupes, deliveries, batch, flushes, request, shutdown, ledger,
      billed>>

\* the state of the HTTP service and its stores
apiVars ==
    <<now, wallet, archive, bills, computes, procs, failures, pricing, disks,
      fips, dupes, ledger, billed>>

\* the state of the queue consumer and its API client
mqVars == <<deliveries, batch, flushes, request, shutdown>>

----------------------------------------------------------------------------
(* Bounds of the model *)

MaxTime == 1
MaxTx == 2
MaxFail == 1
MaxBills == 2
MaxEvents == 2
MaxUsageTime == 2
MaxLogEvents == 3
MaxDeliveries == 3
MaxReceipts == 2
RetryCount == 3
BatchSize == 2
MaxConcurrent == 1
MaxFlushes == 2

\* the amounts and opening balances requests carry, in sub-units: half a
\* quantum, one quantum, one and a half
Amounts == {1, 2, 3}
Balances == {0, 1}

(* Program constants *)

Quantum == 2

Users == {"u1"}
Procs == {"p1", "p2"}
Computes == {"c1"}
Disks == {"d1"}
Fips == {"f1"}
NoTime == -1
NoBill == 0

----------------------------------------------------------------------------
(* Decimal rendering *)

Floor(x, q) == (x \div q) * q

\* value.quantize(Decimal('0.000001')): round to a multiple of Quantum,
\* ROUND_HALF_EVEN (the decimal context's default rounding)
Quantize(x) ==
    LET lo == Floor(x, Quantum)
        r  == x - lo
    IN  IF 2 * r < Quantum THEN lo
        ELSE IF 2 * r > Quantum THEN lo + Quantum
        ELSE IF (lo \div Quantum) % 2 = 0 THEN lo ELSE lo + Quantum

\* the mutant cuts the digits off instead of rounding
format_amount_cut(value) == Floor(value, Quantum)

\* _format_amount: quantize, normalize, strip trailing zeros, '-0' -> '0';
\* the string is represented by the value it denotes
format_amount(value) == Quantize(value)

----------------------------------------------------------------------------
(* Wallet rows and sessions *)

NoWallet ==
    [exists |-> FALSE, balance |-> 0, allow_negative |-> TRUE,
     last_deducted_at |-> NoTime]

\* UserWallet(...): the row create_wallet adds
NewWallet(balance, allow_negative) ==
    [exists |-> TRUE, balance |-> balance, allow_negative |-> allow_negative,
     last_deducted_at |-> NoTime]

IdleProc ==
    [pc |-> "idle", op |-> "none", user |-> "u1", amount |-> 0,
     loaded |-> FALSE, bal |-> 0, an |-> TRUE, lda |-> NoTime,
     tx_amount |-> 0, balance_after |-> 0, tx_type |-> "none",
     reason |-> "none", bill |-> NoBill, result |-> "none",
     period_end |-> NoTime,
     todo |-> <<>>, charges |-> <<>>, total |-> 0,
     resource |-> "none", flavor |-> "none"]

Idle(p) == procs[p].pc = "idle"

\* a request starts in a fresh session with fresh locals
Fresh(op, user) == [IdleProc EXCEPT !.op = op, !.user = user]

\* a request returns (or raises): the response is what was asked for and
\* what was answered; the locals are gone
Return(pr, result) ==
    [IdleProc EXCEPT !.pc = "done", !.op = pr.op, !.bill = pr.bill,
                     !.result = result]

Done(p) == procs[p].pc = "done"

\* the requests in flight that will still archive a transaction of user u
InFlight(u) ==
    Cardinality({p \in Procs : procs[p].pc \notin {"idle", "done", "insert_compute"}
                                 /\ procs[p].user = u})

\* room for one more transaction of user u within the model's bound
Room(u) == Len(archive[u]) + InFlight(u) < MaxTx

\* the transaction document _add_transaction builds
Tx(amount, balance_after, tx_type, reason, bill) ==
    [amount |-> format_amount(amount),
     balance_after |-> format_amount(balance_after),
     type |-> tx_type, reason |-> reason, bill |-> bill]

----------------------------------------------------------------------------
(* Wallet ledger: WalletService *)

\* POST /wallets: 409 when the wallet exists, else WalletService.create_wallet
\* with the request's fields: the row is committed, the archive document is
\* inserted, and a positive initial balance is archived as a first credit
create_wallet(p, u, balance, allow_negative) ==
    /\ Idle(p)
    /\ IF wallet[u].exists
       THEN /\ procs' = [procs EXCEPT ![p] =
                  Return(Fresh("create_wallet", u), "conflict")]
            /\ UNCHANGED <<wallet, archive, ledger,
                   mqVars>>
       ELSE /\ wallet' = [wallet EXCEPT ![u] = NewWallet(balance, allow_negative)]
            /\ archive' = [archive EXCEPT ![u] = <<>>]
            /\ ledger' = [ledger EXCEPT ![u] = balance]
            /\ procs' = [procs EXCEPT ![p] =
                  IF balance > 0
                  THEN [Fresh("create_wallet", u) EXCEPT
                          !.pc = "append", !.amount = balance,
                          !.tx_amount = balance, !.balance_after = balance,
                          !.tx_type = "credit", !.reason = "Initial Balance"]
                  ELSE Return(Fresh("create_wallet", u), "ok")]
    /\ UNCHANGED <<now, bills, computes, failures, billed,
                   pricing, disks, fips, dupes,
                   mqVars>>

\* the session's query for the wallet row: an instance already in the
\* session's identity map keeps the attribute values it was loaded with
QueryWallet(pr, u) ==
    IF pr.loaded THEN pr
    ELSE [pr EXCEPT !.loaded = TRUE, !.bal = wallet[u].balance,
                    !.an = wallet[u].allow_negative,
                    !.lda = wallet[u].last_deducted_at]

\* add_credit, lines 112-117: load the wallet, None when absent
add_credit_query(p, u, amount) ==
    /\ Idle(p)
    /\ Room(u)
    /\ procs' = [procs EXCEPT ![p] =
          IF ~wallet[u].exists
          THEN Return(Fresh("credit", u), "not_found")
          ELSE [QueryWallet(Fresh("credit", u), u) EXCEPT
                  !.amount = amount, !.pc = "credit_commit"]]
    /\ UNCHANGED <<now, wallet, archive, bills, computes, failures, ledger, billed,
                   pricing, disks, fips, dupes,
                   mqVars>>

\* add_credit, lines 119-122: the new balance is computed from the loaded
\* one and committed (UPDATE ... SET balance = <value>)
add_credit_commit(p) ==
    /\ procs[p].pc = "credit_commit"
    /\ LET pr == procs[p]
           nb == pr.bal + pr.amount
       IN  /\ wallet' = [wallet EXCEPT ![pr.user].balance = nb]
           /\ ledger' = [ledger EXCEPT ![pr.user] = @ + pr.amount]
           /\ procs' = [procs EXCEPT ![p] =
                 [pr EXCEPT !.pc = "append", !.tx_amount = pr.amount,
                            !.balance_after = nb, !.tx_type = "credit",
                            !.reason = "manual"]]
    /\ UNCHANGED <<now, archive, bills, computes, failures, billed,
                   pricing, disks, fips, dupes,
                   mqVars>>

\* the balance add_debit writes, lines 154-157: no check of allow_negative
DebitedBalance(current_balance, amount, allow_negative) ==
    current_balance - amount

\* add_debit, lines 147-152, called by the debit route: load the wallet
add_debit_query(p, u, amount) ==
    /\ Idle(p)
    /\ Room(u)
    /\ procs' = [procs EXCEPT ![p] =
          IF ~wallet[u].exists
          THEN Return(Fresh("debit", u), "not_found")
          ELSE [QueryWallet(Fresh("debit", u), u) EXCEPT
                  !.amount = amount, !.reason = "manual",
                  !.pc = "debit_commit"]]
    /\ UNCHANGED <<now, wallet, archive, bills, computes, failures, ledger, billed,
                   pricing, disks, fips, dupes,
                   mqVars>>

\* {"$set": {"status": "failed"}}
Failed(bill) == [bill EXCEPT !.status = "failed"]

\* add_debit, lines 147-152, called by compute_bill or retry_failed_bill in
\* the caller's session
\* the caller's session; without the wallet row add_debit returns None and
\* the caller takes its failure branch: compute_bill (lines 367-372) sets
\* the bill failed, retry_failed_bill (lines 411-413) answers failed and
\* writes nothing
add_debit_query_nested(p) ==
    /\ procs[p].pc = "debit_query"
    /\ LET pr == procs[p]
       IN  IF wallet[pr.user].exists
           THEN /\ procs' = [procs EXCEPT ![p] =
                      [QueryWallet(pr, pr.user) EXCEPT !.pc = "debit_commit"]]
                /\ UNCHANGED bills
           ELSE /\ procs' = [procs EXCEPT ![p] = Return(pr, "failed")]
                /\ bills' = IF pr.op = "compute_bill"
                            THEN [bills EXCEPT ![pr.bill] = Failed(@)]
                            ELSE bills
    /\ UNCHANGED <<now, wallet, archive, computes, failures, ledger, billed,
                   pricing, disks, fips, dupes,
                   mqVars>>

\* add_debit, lines 154-160: balance and last_deducted_at are committed
add_debit_commit(p) ==
    /\ procs[p].pc = "debit_commit"
    /\ LET pr == procs[p]
           nb == DebitedBalance(pr.bal, pr.amount, pr.an)
       IN  /\ wallet' = [wallet EXCEPT ![pr.user].balance = nb,
                                       ![pr.user].last_deducted_at = now]
           /\ ledger' = [ledger EXCEPT ![pr.user] = @ - pr.amount]
           /\ procs' = [procs EXCEPT ![p] =
                 [pr EXCEPT !.pc = "append", !.tx_amount = -pr.amount,
                            !.balance_after = nb, !.tx_type = "debit"]]
    /\ UNCHANGED <<now, archive, bills, computes, failures, billed,
                   pricing, disks, fips, dupes,
                   mqVars>>

\* where a request continues once its transaction is archived
AfterAppend(pr) ==
    IF pr.op = "compute_bill" THEN [pr EXCEPT !.pc = "bill_settle"]
    ELSE IF pr.op = "retry" THEN [pr EXCEPT !.pc = "retry_settle"]
    ELSE Return(pr, "ok")

\* _add_transaction: $push of the transaction onto the archive document
add_transaction(p) ==
    /\ procs[p].pc = "append"
    /\ LET pr == procs[p]
       IN  /\ archive' = [archive EXCEPT ![pr.user] =
                 Append(@, Tx(pr.tx_amount, pr.balance_after, pr.tx_type,
                              pr.reason, pr.bill))]
           /\ procs' = [procs EXCEPT ![p] = AfterAppend(pr)]
    /\ UNCHANGED <<now, wallet, bills, computes, failures, ledger, billed,
                   pricing, disks, fips, dupes,
                   mqVars>>

\* _add_transaction raises (the document store is unreachable): the
\* exception leaves the request; the wallet row was committed before
add_transaction_raises(p) ==
    /\ procs[p].pc = "append"
    /\ failures < MaxFail
    /\ failures' = failures + 1
    /\ procs' = [procs EXCEPT ![p] =
          Return(procs[p], "exception")]
    /\ UNCHANGED <<now, wallet, archive, bills, computes, ledger, billed,
                   pricing, disks, fips, dupes,
                   mqVars>>

----------------------------------------------------------------------------
(* Resource store: ResourceService (compute) *)

NoFlavor == "none"
NoState == "none"

NoCompute ==
    [exists |-> FALSE, resource_id |-> "none", user_id |-> "none",
     state |-> NoState, current_flavor |-> NoFlavor, created_at |-> NoTime,
     deleted_at |-> NoTime, last_billed_until |-> NoTime, events |-> <<>>]

\* an event entry; flavor is NoFlavor when the event has no meta
Event(time, type, flavor) == [time |-> time, type |-> type, flavor |-> flavor]

\* POST /resources/computes: 409 when the id exists, else create_compute
create_compute(p, r, u, flavor) ==
    /\ Idle(p)
    /\ IF computes[r].exists
       THEN /\ procs' = [procs EXCEPT ![p] =
                  Return(Fresh("create_compute", u), "conflict")]
            /\ UNCHANGED computes
       ELSE /\ computes' = [computes EXCEPT ![r] =
                  [exists |-> TRUE, resource_id |-> r, user_id |-> u,
                   state |-> "running", current_flavor |-> flavor,
                   created_at |-> now, deleted_at |-> NoTime,
                   last_billed_until |-> now,
                   events |-> <<Event(now, "create", flavor)>>]]
            /\ procs' = [procs EXCEPT ![p] =
                  Return(Fresh("create_compute", u), "ok")]
    /\ billed' = IF computes[r].exists THEN billed ELSE NoTime
    /\ UNCHANGED <<now, wallet, archive, bills, failures, ledger,
                   pricing, disks, fips, dupes,
                   mqVars>>

\* the document create_compute inserts
NewCompute(r, u, flavor) ==
    [exists |-> TRUE, resource_id |-> r, user_id |-> u,
     state |-> "running", current_flavor |-> flavor,
     created_at |-> now, deleted_at |-> NoTime,
     last_billed_until |-> now,
     events |-> <<Event(now, "create", flavor)>>]

\* POST /resources/computes, lines 34-39 of the route: get_compute, and 409
\* when a document was found
create_compute_get(p, r, u, flavor) ==
    /\ Idle(p)
    /\ procs' = [procs EXCEPT ![p] =
          IF computes[r].exists
          THEN Return(Fresh("create_compute", u), "conflict")
          ELSE [Fresh("create_compute", u) EXCEPT
                  !.pc = "insert_compute", !.resource = r, !.flavor = flavor]]
    /\ UNCHANGED <<now, wallet, archive, bills, computes, failures, ledger, billed,
                   pricing, disks, fips, dupes,
                   mqVars>>

\* POST /resources/computes, lines 41-45 of the route: create_compute
\* inserts its document; the collection has no unique index, so a document
\* of the same resource_id inserted meanwhile stays beside it
create_compute_insert(p) ==
    /\ procs[p].pc = "insert_compute"
    /\ LET pr == procs[p]
           doc == NewCompute(pr.resource, pr.user, pr.flavor)
       IN  /\ IF computes[pr.resource].exists
              THEN /\ dupes' = [dupes EXCEPT ![pr.resource] = Append(@, doc)]
                   /\ UNCHANGED computes
              ELSE /\ computes' = [computes EXCEPT ![pr.resource] = doc]
                   /\ UNCHANGED dupes
           /\ procs' = [procs EXCEPT ![p] = Return(pr, "ok")]
    /\ billed' = NoTime
    /\ UNCHANGED <<now, wallet, archive, bills, failures, ledger,
                   pricing, disks, fips,
                   mqVars>>

\* the mutant writes the new event over the log
Pushed_over(events, event) == <<event>>

\* update_one with {"$set": updates, "$push": {"events": event}}: the event
\* is added at the end of the log in the write that sets the fields
Pushed(events, event) == Append(events, event)

\* the event update_compute builds: the state names it, a flavor makes it
\* a resize carrying the flavor
UpdateEvent(state, flavor) ==
    Event(now, IF flavor # NoFlavor THEN "resize" ELSE state, flavor)

\* update_compute(resource_id, state, flavor); delete_compute is
\* update_compute(state = "deleted")
update_compute_request(p, r, state, flavor) ==
    /\ Idle(p)
    /\ IF ~computes[r].exists
       THEN /\ procs' = [procs EXCEPT ![p] =
                  Return(Fresh("update_compute", "u1"), "not_found")]
            /\ UNCHANGED computes
       ELSE /\ procs' = [procs EXCEPT ![p] =
                  Return(Fresh("update_compute", computes[r].user_id), "ok")]
            /\ IF state = NoState /\ flavor = NoFlavor
               THEN UNCHANGED computes
               ELSE computes' = [computes EXCEPT ![r] =
                      [@ EXCEPT
                         !.state = IF state # NoState THEN state ELSE @,
                         !.deleted_at = IF state = "deleted" THEN now ELSE @,
                         !.current_flavor = IF flavor # NoFlavor THEN flavor ELSE @,
                         !.events = Pushed(@, UpdateEvent(state, flavor))]]
    /\ billed' = IF computes' = computes THEN billed ELSE NoTime
    /\ UNCHANGED <<now, wallet, archive, bills, failures, ledger,
                   pricing, disks, fips, dupes,
                   mqVars>>

\* the same request, while the event log of the compute is short of MaxEvents
update_compute(p, r, state, flavor) ==
    /\ Len(computes[r].events) < MaxEvents
    /\ update_compute_request(p, r, state, flavor)

ComputeList == <<"c1">>

\* the documents of compute_resources: per id the one find_one and
\* update_one reach, then the ones inserted under the same id after it
RECURSIVE ComputeDocs(_)
ComputeDocs(ids) ==
    IF ids = <<>> THEN <<>>
    ELSE (IF computes[Head(ids)].exists THEN <<computes[Head(ids)]>> ELSE <<>>)
         \o dupes[Head(ids)] \o ComputeDocs(Tail(ids))

\* get_user_computes: find({user_id, deleted_at: None})
get_user_computes(user_id) ==
    SelectSeq(ComputeDocs(ComputeList), LAMBDA d :
        d.user_id = user_id /\ d.deleted_at = NoTime)

----------------------------------------------------------------------------
(* Resource store: ResourceService (disk) *)

NoSize == 0

NoDisk ==
    [exists |-> FALSE, resource_id |-> "none", user_id |-> "none",
     size_gb |-> NoSize, state |-> NoState, created_at |-> NoTime,
     deleted_at |-> NoTime, last_billed_until |-> NoTime, events |-> <<>>]

\* an event entry of a disk; size_gb is NoSize when the event has no meta
DiskEvent(time, type, size_gb) == [time |-> time, type |-> type, size_gb |-> size_gb]

\* POST /resources/disks: 409 when the id exists, else create_disk (the
\* route passes no attached_to: the disk starts detached)
create_disk(p, r, u, size_gb) ==
    /\ Idle(p)
    /\ IF disks[r].exists
       THEN /\ procs' = [procs EXCEPT ![p] =
                  Return(Fresh("create_disk", u), "conflict")]
            /\ UNCHANGED disks
       ELSE /\ disks' = [disks EXCEPT ![r] =
                  [exists |-> TRUE, resource_id |-> r, user_id |-> u,
                   size_gb |-> size_gb, state |-> "detached",
                   created_at |-> now, deleted_at |-> NoTime,
                   last_billed_until |-> now,
                   events |-> <<DiskEvent(now, "create", size_gb)>>]]
            /\ procs' = [procs EXCEPT ![p] =
                  Return(Fresh("create_disk", u), "ok")]
    /\ billed' = IF disks[r].exists THEN billed ELSE NoTime
    /\ UNCHANGED <<now, wallet, archive, bills, computes, failures, ledger,
                   pricing, fips, dupes,
                   mqVars>>

\* the event update_disk builds: the state names it, a size makes it a
\* resize carrying the size
DiskUpdateEvent(state, size_gb) ==
    DiskEvent(now, IF size_gb # NoSize THEN "resize" ELSE state, size_gb)

\* update_disk(resource_id, state, size_gb), the parameters the route
\* passes; delete_disk is update_disk(state = "deleted")
update_disk_request(p, r, state, size_gb) ==
    /\ Idle(p)
    /\ IF ~disks[r].exists
       THEN /\ procs' = [procs EXCEPT ![p] =
                  Return(Fresh("update_disk", "u1"), "not_found")]
            /\ UNCHANGED disks
       ELSE /\ procs' = [procs EXCEPT ![p] =
                  Return(Fresh("update_disk", disks[r].user_id), "ok")]
            /\ IF state = NoState /\ size_gb = NoSize
               THEN UNCHANGED disks
               ELSE disks' = [disks EXCEPT ![r] =
                      [@ EXCEPT
                         !.state = IF state # NoState THEN state ELSE @,
                         !.deleted_at = IF state = "deleted" THEN now ELSE @,
                         !.size_gb = IF size_gb # NoSize THEN size_gb ELSE @,
                         !.events = Pushed(@, DiskUpdateEvent(state, size_gb))]]
    /\ billed' = IF disks' = disks THEN billed ELSE NoTime
    /\ UNCHANGED <<now, wallet, archive, bills, computes, failures, ledger,
                   pricing, fips, dupes,
                   mqVars>>

\* the same request, while the event log of the disk is short of MaxEvents
update_disk(p, r, state, size_gb) ==
    /\ Len(disks[r].events) < MaxEvents
    /\ update_disk_request(p, r, state, size_gb)

DiskList == <<"d1">>

\* get_user_disks: find({user_id, deleted_at: None})
get_user_disks(user_id) ==
    LET ids == SelectSeq(DiskList, LAMBDA r :
                  /\ disks[r].exists
                  /\ disks[r].user_id = user_id
                  /\ disks[r].deleted_at = NoTime)
    IN  [i \in 1..Len(ids) |-> disks[ids[i]]]

----------------------------------------------------------------------------
(* Resource store: ResourceService (floating IP) *)

NoFip ==
    [exists |-> FALSE, resource_id |-> "none", user_id |-> "none",
     created_at |-> NoTime, released_at |-> NoTime,
     last_billed_until |-> NoTime, events |-> <<>>]

\* an event entry of a floating IP
FipEvent(time, type) == [time |-> time, type |-> type]

\* POST /resources/floating-ips: 409 when the id exists, else
\* create_floating_ip
create_floating_ip(p, r, u) ==
    /\ Idle(p)
    /\ IF fips[r].exists
       THEN /\ procs' = [procs EXCEPT ![p] =
                  Return(Fresh("create_floating_ip", u), "conflict")]
            /\ UNCHANGED fips
       ELSE /\ fips' = [fips EXCEPT ![r] =
                  [exists |-> TRUE, resource_id |-> r, user_id |-> u,
                   created_at |-> now, released_at |-> NoTime,
                   last_billed_until |-> now,
                   events |-> <<FipEvent(now, "allocate")>>]]
            /\ procs' = [procs EXCEPT ![p] =
                  Return(Fresh("create_floating_ip", u), "ok")]
    /\ billed' = IF fips[r].exists THEN billed ELSE NoTime
    /\ UNCHANGED <<now, wallet, archive, bills, computes, failures, ledger,
                   pricing, disks, dupes,
                   mqVars>>

\* DELETE /resources/floating-ips/{id}: release_floating_ip is
\* update_floating_ip(release = True): released_at is set to now and a
\* release event is pushed, whether or not the IP was released before
release_floating_ip_request(p, r) ==
    /\ Idle(p)
    /\ IF ~fips[r].exists
       THEN /\ procs' = [procs EXCEPT ![p] =
                  Return(Fresh("release_floating_ip", "u1"), "not_found")]
            /\ UNCHANGED fips
       ELSE /\ procs' = [procs EXCEPT ![p] =
                  Return(Fresh("release_floating_ip", fips[r].user_id), "ok")]
            /\ fips' = [fips EXCEPT ![r] =
                  [@ EXCEPT !.released_at = now,
                            !.events = Pushed(@, FipEvent(now, "release"))]]
    /\ billed' = IF fips' = fips THEN billed ELSE NoTime
    /\ UNCHANGED <<now, wallet, archive, bills, computes, failures, ledger,
                   pricing, disks, dupes,
                   mqVars>>

\* the same request, while the event log of the IP is short of MaxEvents
release_floating_ip(p, r) ==
    /\ Len(fips[r].events) < MaxEvents
    /\ release_floating_ip_request(p, r)

FipList == <<"f1">>

\* get_user_floating_ips: find({user_id, released_at: None})
get_user_floating_ips(user_id) ==
    LET ids == SelectSeq(FipList, LAMBDA r :
                  /\ fips[r].exists
                  /\ fips[r].user_id = user_id
                  /\ fips[r].released_at = NoTime)
    IN  [i \in 1..Len(ids) |-> fips[ids[i]]]

----------------------------------------------------------------------------
(* Billing engine: BillingService *)

\* POST /prices: PriceService.create_price writes the latest_prices row of
\* the currency (the schedule is the one below, whoever posts it)
create_price(p) ==
    /\ Idle(p)
    /\ pricing' = TRUE
    /\ procs' = [procs EXCEPT ![p] = Return(Fresh("create_price", "u1"), "ok")]
    /\ UNCHANGED <<now, wallet, archive, bills, computes, failures, ledger, billed,
                   disks, fips, dupes,
                   mqVars>>

\* latest_prices row of the wallet currency: per_hour by flavor, in sub-units
ComputePrice == [small |-> 1, medium |-> 2]

\* pricing["compute"].get(flavor, pricing["compute"].get("others", {}))
\*   .get("per_hour", 0); the schedule has no "others" entry
Rate(flavor) == IF flavor \in DOMAIN ComputePrice THEN ComputePrice[flavor] ELSE 0

\* _calculate_hours: (end - start).total_seconds() / 3600
calculate_hours(start, end) == end - start

\* sorted(..., key = time): the stable sort of a sequence of events
RECURSIVE SortByTime(_)
SortByTime(s) ==
    IF s = <<>> THEN <<>>
    ELSE LET init == SortByTime(SubSeq(s, 1, Len(s) - 1))
             e    == s[Len(s)]
             k    == Cardinality({i \in 1..Len(init) : init[i].time <= e.time})
         IN  SubSeq(init, 1, k) \o <<e>> \o SubSeq(init, k + 1, Len(init))

\* _get_billable_segments
get_billable_segments(events, last_billed, period_end) ==
    SortByTime(SelectSeq(events, LAMBDA e :
                  e.time > last_billed /\ e.time <= period_end))

StateEvents == {"running", "stopped", "deleted"}

\* _calculate_compute_charge, lines 100-123: flavor and state in force at
\* last_billed, replayed from the events up to it
RECURSIVE Replay(_, _, _, _)
Replay(evs, last_billed, flavor, state) ==
    IF evs = <<>> \/ Head(evs).time > last_billed
    THEN [flavor |-> flavor, state |-> state]
    ELSE LET e == Head(evs)
         IN  IF e.type = "create"
             THEN Replay(Tail(evs), last_billed,
                         IF e.flavor # NoFlavor THEN e.flavor ELSE flavor, "running")
             ELSE IF e.type = "resize"
             THEN Replay(Tail(evs), last_billed,
                         IF e.flavor # NoFlavor THEN e.flavor ELSE flavor, state)
             ELSE IF e.type \in StateEvents
             THEN Replay(Tail(evs), last_billed, flavor, e.type)
             ELSE Replay(Tail(evs), last_billed, flavor, state)

\* _calculate_compute_charge, lines 133-146: the walk over the segments
RECURSIVE Walk(_, _, _, _, _)
Walk(segments, current_time, flavor, state, total_charge) ==
    IF segments = <<>>
    THEN [time |-> current_time, flavor |-> flavor, state |-> state,
          total |-> total_charge]
    ELSE LET seg == Head(segments)
             charged == IF state = "running" /\ flavor # NoFlavor
                        THEN total_charge
                             + calculate_hours(current_time, seg.time) * Rate(flavor)
                        ELSE total_charge
         IN  Walk(Tail(segments), seg.time,
                  IF seg.type = "resize" /\ seg.flavor # NoFlavor
                     THEN seg.flavor ELSE flavor,
                  IF seg.type # "resize" /\ seg.type \in StateEvents
                     THEN seg.type ELSE state,
                  charged)

\* _calculate_compute_charge
calculate_compute_charge(compute, last_billed, period_end) ==
    LET segments == get_billable_segments(compute.events, last_billed, period_end)
        start == Replay(SortByTime(compute.events), last_billed, NoFlavor, NoState)
        current_flavor == IF start.flavor = NoFlavor
                          THEN compute.current_flavor ELSE start.flavor
        current_state == IF start.state = NoState
                         THEN compute.state ELSE start.state
        w == Walk(segments, last_billed, current_flavor, current_state, 0)
        is_deleted == \E i \in 1..Len(segments) : segments[i].type = "deleted"
    IN  IF segments = <<>>
        THEN IF current_state # "running" THEN 0
             ELSE calculate_hours(last_billed, period_end)
                  * Rate(compute.current_flavor)
        ELSE IF w.state = "running" /\ w.flavor # NoFlavor /\ ~is_deleted
                /\ w.time < period_end
             THEN w.total + calculate_hours(w.time, period_end) * Rate(w.flavor)
             ELSE w.total

\* _compute_resource_charges, lines 224-228: where billing of a resource ends
BillingEnd(resource, period_end) ==
    IF resource.deleted_at # NoTime /\ resource.deleted_at < period_end
    THEN resource.deleted_at ELSE period_end

\* the mutant finds a schedule whether or not one was created
get_latest_price_default(currency) == TRUE

\* _get_latest_price: the latest schedule of the currency, None when no
\* price was created (every wallet and schedule of the model is in USD)
get_latest_price(currency) == pricing

\* the billing requests in flight
Billing ==
    Cardinality({p \in Procs : procs[p].op = "compute_bill"
                                 /\ procs[p].pc \notin {"idle", "done"}})

\* compute_bill, lines 308-322: wallet, pricing, period_end (period_start,
\* price_version and generated_at are written to the bill and read by no
\* operation; the bill of the model does not carry them)
compute_bill(p, u, period_end) ==
    /\ Idle(p)
    /\ Room(u)
    /\ Len(bills) + Billing < MaxBills
    /\ procs' = [procs EXCEPT ![p] =
          IF ~wallet[u].exists
          THEN Return(Fresh("compute_bill", u), "error")
          ELSE IF ~get_latest_price("USD")
          THEN Return(Fresh("compute_bill", u), "no_pricing")
          ELSE [QueryWallet(Fresh("compute_bill", u), u) EXCEPT
                  !.pc = "list_computes",
                  !.period_end = IF period_end = NoTime THEN now ELSE period_end]]
    /\ UNCHANGED <<now, wallet, archive, bills, computes, failures, ledger, billed,
                   pricing, disks, fips, dupes,
                   mqVars>>

\* _compute_resource_charges, line 220: the user's computes are listed
list_computes(p) ==
    /\ procs[p].pc = "list_computes"
    /\ procs' = [procs EXCEPT ![p] =
          [procs[p] EXCEPT !.pc = "bill_computes",
                           !.todo = get_user_computes(procs[p].user)]]
    /\ UNCHANGED <<now, wallet, archive, bills, computes, failures, ledger, billed,
                   pricing, disks, fips, dupes,
                   mqVars>>

\* the entry of a bill's charges, lines 234-238; since and until are
\* history, the interval the amount was computed for, which the code does
\* not store
Charge(type, resource_id, amount, since, until) ==
    [type |-> type, resource_id |-> resource_id,
     amount |-> format_amount(amount), since |-> since, until |-> until]

\* the mutant leaves the cursor where it was
update_last_billed_skipped(resource_id, billed_until) == UNCHANGED computes

\* update_last_billed: $set of last_billed_until on the stored document
update_last_billed(resource_id, billed_until) ==
    computes' = [computes EXCEPT ![resource_id].last_billed_until = billed_until]

\* _compute_resource_charges, lines 221-245: one compute of the listing is
\* charged from the listed document and its cursor is advanced
bill_compute(p) ==
    /\ procs[p].pc = "bill_computes"
    /\ procs[p].todo # <<>>
    /\ LET pr == procs[p]
           compute == Head(pr.todo)
           last_billed == compute.last_billed_until
           billing_end == BillingEnd(compute, pr.period_end)
           amount == calculate_compute_charge(compute, last_billed, billing_end)
       IN  IF last_billed >= billing_end
           THEN /\ procs' = [procs EXCEPT ![p] = [pr EXCEPT !.todo = Tail(pr.todo)]]
                /\ UNCHANGED computes
           ELSE /\ procs' = [procs EXCEPT ![p] =
                      [pr EXCEPT
                         !.todo = Tail(pr.todo),
                         !.charges = IF amount > 0
                                     THEN Append(@, Charge("compute", compute.resource_id, amount,
                                                          last_billed, billing_end))
                                     ELSE @,
                         !.total = IF amount > 0 THEN @ + amount ELSE @]]
                /\ update_last_billed(compute.resource_id, billing_end)
    /\ UNCHANGED <<now, wallet, archive, bills, failures, ledger, billed,
                   pricing, disks, fips, dupes,
                   mqVars>>

\* pricing["disk"].get("per_gb_hour", 0) of the schedule, in sub-units
DiskPrice == 1

\* _calculate_disk_charge, lines 183-187: the size in force at last_billed,
\* from the create and resize events up to it, in log order
RECURSIVE DiskReplay(_, _, _)
DiskReplay(evs, last_billed, size) ==
    IF evs = <<>> THEN size
    ELSE LET e == Head(evs)
         IN  DiskReplay(Tail(evs), last_billed,
                        IF e.time <= last_billed /\ e.type \in {"create", "resize"}
                           /\ e.size_gb # NoSize
                        THEN e.size_gb ELSE size)

\* _calculate_disk_charge, lines 192-201: the walk over the segments
RECURSIVE DiskWalk(_, _, _, _, _)
DiskWalk(segments, current_time, size, total_charge, is_deleted) ==
    IF segments = <<>>
    THEN [time |-> current_time, size |-> size, total |-> total_charge,
          is_deleted |-> is_deleted]
    ELSE LET seg == Head(segments)
         IN  DiskWalk(Tail(segments), seg.time,
                      IF seg.type = "resize" /\ seg.size_gb # NoSize
                         THEN seg.size_gb ELSE size,
                      total_charge
                         + calculate_hours(current_time, seg.time) * size * DiskPrice,
                      is_deleted \/ seg.type = "deleted")

\* _calculate_disk_charge
calculate_disk_charge(disk, last_billed, period_end) ==
    LET segments == get_billable_segments(disk.events, last_billed, period_end)
        replayed == DiskReplay(disk.events, last_billed, NoSize)
        current_size == IF replayed = NoSize THEN disk.size_gb ELSE replayed
        w == DiskWalk(segments, last_billed, current_size, 0, FALSE)
    IN  IF segments = <<>>
        THEN calculate_hours(last_billed, period_end) * disk.size_gb * DiskPrice
        ELSE IF ~w.is_deleted /\ w.time < period_end
             THEN w.total + calculate_hours(w.time, period_end) * w.size * DiskPrice
             ELSE w.total

\* _compute_resource_charges, line 247: the user's disks are listed once
\* the computes are through
list_disks(p) ==
    /\ procs[p].pc = "bill_computes"
    /\ procs[p].todo = <<>>
    /\ procs' = [procs EXCEPT ![p] =
          [procs[p] EXCEPT !.pc = "bill_disks",
                           !.todo = get_user_disks(procs[p].user)]]
    /\ UNCHANGED <<now, wallet, archive, bills, computes, failures, ledger, billed,
                   pricing, disks, fips, dupes,
                   mqVars>>

\* update_last_billed("disk", ...)
update_disk_last_billed(resource_id, billed_until) ==
    disks' = [disks EXCEPT ![resource_id].last_billed_until = billed_until]

\* _compute_resource_charges, lines 248-272: one disk of the listing
bill_disk(p) ==
    /\ procs[p].pc = "bill_disks"
    /\ procs[p].todo # <<>>
    /\ LET pr == procs[p]
           disk == Head(pr.todo)
           last_billed == disk.last_billed_until
           billing_end == BillingEnd(disk, pr.period_end)
           amount == calculate_disk_charge(disk, last_billed, billing_end)
       IN  IF last_billed >= billing_end
           THEN /\ procs' = [procs EXCEPT ![p] = [pr EXCEPT !.todo = Tail(pr.todo)]]
                /\ UNCHANGED disks
           ELSE /\ procs' = [procs EXCEPT ![p] =
                      [pr EXCEPT
                         !.todo = Tail(pr.todo),
                         !.charges = IF amount > 0
                                     THEN Append(@, Charge("disk", disk.resource_id, amount,
                                                          last_billed, billing_end))
                                     ELSE @,
                         !.total = IF amount > 0 THEN @ + amount ELSE @]]
                /\ update_disk_last_billed(disk.resource_id, billing_end)
    /\ UNCHANGED <<now, wallet, archive, bills, computes, failures, ledger, billed,
                   pricing, fips, dupes,
                   mqVars>>

\* pricing["floating_ip"].get("per_hour", 0) of the schedule, in sub-units
FipPrice == 1

\* _compute_resource_charges, lines 278-282: where billing of an IP ends
FipBillingEnd(fip, period_end) ==
    IF fip.released_at # NoTime /\ fip.released_at < period_end
    THEN fip.released_at ELSE period_end

\* _compute_resource_charges, line 274: the user's floating IPs are listed
\* once the disks are through
list_floating_ips(p) ==
    /\ procs[p].pc = "bill_disks"
    /\ procs[p].todo = <<>>
    /\ procs' = [procs EXCEPT ![p] =
          [procs[p] EXCEPT !.pc = "bill_fips",
                           !.todo = get_user_floating_ips(procs[p].user)]]
    /\ UNCHANGED <<now, wallet, archive, bills, computes, failures, ledger, billed,
                   pricing, disks, fips, dupes,
                   mqVars>>

\* update_last_billed("floating_ip", ...)
update_fip_last_billed(resource_id, billed_until) ==
    fips' = [fips EXCEPT ![resource_id].last_billed_until = billed_until]

\* _compute_resource_charges, lines 275-299: one floating IP of the listing
bill_floating_ip(p) ==
    /\ procs[p].pc = "bill_fips"
    /\ procs[p].todo # <<>>
    /\ LET pr == procs[p]
           fip == Head(pr.todo)
           last_billed == fip.last_billed_until
           billing_end == FipBillingEnd(fip, pr.period_end)
           amount == calculate_hours(last_billed, billing_end) * FipPrice
       IN  IF last_billed >= billing_end
           THEN /\ procs' = [procs EXCEPT ![p] = [pr EXCEPT !.todo = Tail(pr.todo)]]
                /\ UNCHANGED fips
           ELSE /\ procs' = [procs EXCEPT ![p] =
                      [pr EXCEPT
                         !.todo = Tail(pr.todo),
                         !.charges = IF amount > 0
                                     THEN Append(@, Charge("floating_ip", fip.resource_id, amount,
                                                          last_billed, billing_end))
                                     ELSE @,
                         !.total = IF amount > 0 THEN @ + amount ELSE @]]
                /\ update_fip_last_billed(fip.resource_id, billing_end)
    /\ UNCHANGED <<now, wallet, archive, bills, computes, failures, ledger, billed,
                   pricing, disks, dupes,
                   mqVars>>

\* the mutant inserts the bill as already settled
NewBill_settled(pr) ==
    [user_id |-> pr.user, period_end |-> pr.period_end, status |-> "success",
     charges |-> pr.charges, total |-> format_amount(pr.total), paid |-> TRUE]

\* the bill document compute_bill inserts, lines 339-350
NewBill(pr) ==
    [user_id |-> pr.user, period_end |-> pr.period_end, status |-> "pending",
     charges |-> pr.charges, total |-> format_amount(pr.total), paid |-> FALSE]

\* the mutant always goes on to a bill
NoBillableUsage_never(total) == FALSE

\* compute_bill, line 328: total == Decimal("0")
NoBillableUsage(total) == total = 0

\* compute_bill, lines 328-351: nothing to bill, or the pending bill is
\* inserted and the wallet debit of the total follows
bill_persist(p) ==
    /\ procs[p].pc = "bill_fips"
    /\ procs[p].todo = <<>>
    /\ LET pr == procs[p]
       IN  IF NoBillableUsage(pr.total)
           THEN /\ procs' = [procs EXCEPT ![p] = Return(pr, "no_usage")]
                /\ UNCHANGED bills
           ELSE /\ bills' = Append(bills, NewBill(pr))
                /\ procs' = [procs EXCEPT ![p] =
                      [pr EXCEPT !.pc = "debit_query", !.amount = pr.total,
                                 !.reason = "Billing cycle",
                                 !.bill = Len(bills) + 1]]
    /\ billed' = procs[p].period_end
    /\ UNCHANGED <<now, wallet, archive, computes, failures, ledger,
                   pricing, disks, fips, dupes,
                   mqVars>>

\* the mutant writes a status word of its own
Settled_renamed(bill) == [bill EXCEPT !.status = "paid", !.paid = TRUE]

\* the mutant marks the bill successful and leaves it unpaid
Settled_unpaid(bill) == [bill EXCEPT !.status = "success"]

\* {"$set": {"status": "success", "paid": True}}
Settled(bill) == [bill EXCEPT !.status = "success", !.paid = TRUE]

\* compute_bill, lines 360-366: add_debit returned a transaction
bill_settle(p) ==
    /\ procs[p].pc = "bill_settle"
    /\ bills' = [bills EXCEPT ![procs[p].bill] = Settled(@)]
    /\ procs' = [procs EXCEPT ![p] = Return(procs[p], "success")]
    /\ UNCHANGED <<now, wallet, archive, computes, failures, ledger, billed,
                   pricing, disks, fips, dupes,
                   mqVars>>

\* the mutant never refuses
AlreadyPaid_never(bill) == FALSE

\* retry_failed_bill, line 394
AlreadyPaid(bill) == bill.paid

\* retry_failed_bill, lines 390-395: the bill is read; a missing or paid
\* bill is refused, else its stored total is debited
retry_failed_bill(p, b) ==
    /\ Idle(p)
    /\ b \in 1..(Len(bills) + 1)
    /\ IF b > Len(bills)
       THEN procs' = [procs EXCEPT ![p] =
               Return([Fresh("retry", "u1") EXCEPT !.bill = b], "not_found")]
       ELSE /\ AlreadyPaid(bills[b]) \/ Room(bills[b].user_id)
            /\ procs' = [procs EXCEPT ![p] =
                  LET pr == [Fresh("retry", bills[b].user_id) EXCEPT !.bill = b]
                  IN  IF AlreadyPaid(bills[b])
                      THEN Return(pr, "already_paid")
                      ELSE [pr EXCEPT !.pc = "debit_query",
                                      !.amount = bills[b].total,
                                      !.reason = "Retry billing"]]
    /\ UNCHANGED <<now, wallet, archive, bills, computes, failures, ledger, billed,
                   pricing, disks, fips, dupes,
                   mqVars>>

\* retry_failed_bill, lines 404-410: add_debit returned a transaction
retry_settle(p) ==
    /\ procs[p].pc = "retry_settle"
    /\ bills' = [bills EXCEPT ![procs[p].bill] = Settled(@)]
    /\ procs' = [procs EXCEPT ![p] = Return(procs[p], "success")]
    /\ UNCHANGED <<now, wallet, archive, computes, failures, ledger, billed,
                   pricing, disks, fips, dupes,
                   mqVars>>

\* get_mysql_session: once the response is out the session is closed
close_session(p) ==
    /\ Done(p)
    /\ procs' = [procs EXCEPT ![p] = IdleProc]
    /\ UNCHANGED <<now, wallet, archive, bills, computes, failures, ledger, billed,
                   pricing, disks, fips, dupes,
                   mqVars>>

\* datetime.utcnow() advances
Tick ==
    /\ now < MaxTime
    /\ now' = now + 1
    /\ UNCHANGED <<wallet, archive, bills, computes, procs, failures, ledger, billed,
                   pricing, disks, fips, dupes,
                   mqVars>>

----------------------------------------------------------------------------
(* Queue consumer: message bodies and the normalizer's verdict *)

\* delivery tags of the messages published to the work queue
Deliveries == 1..MaxDeliveries

ResourceTypes == {"compute", "disk", "floating_ip"}

EventTypes ==
    {"create", "update", "delete", "start", "stop", "resize", "attach", "detach",
     "allocate", "release"}

\* the payload keys the handlers read
PayloadKeys == {"state", "flavor", "size_gb"}

\* what a message body is to _process_message and parse_message:
\*   bad_bytes   the bytes do not decode as UTF-8
\*   bad_json    the text is not JSON
\*   not_object  the JSON value is a list, string, number, true/false or null
\*   nil         a JSON object for which parse_message returns None
\*   event       a JSON object that parse_message turns into a ParsedEvent
BodyKinds == {"bad_bytes", "bad_json", "not_object", "nil", "event"}

NoBody == [kind |-> "none", resource_type |-> "none", event_type |-> "none",
           payload |-> {}]

Body(kind, resource_type, event_type, payload) ==
    [kind |-> kind, resource_type |-> resource_type, event_type |-> event_type,
     payload |-> payload]

\* a body that is no event
Plain(kind) == Body(kind, "none", "none", {})

\* a delivery tag nothing was published under
NoDelivery ==
    [body |-> NoBody, state |-> "none", receipts |-> 0, result |-> "none",
     call |-> <<>>]

----------------------------------------------------------------------------
(* Queue consumer: EventHandler dispatch *)

\* a call of a BillingAPIClient method: its name and the payload keys whose
\* values it is given
Call(op, keys) == <<op, keys>>

\* the handler returns APIResponse(SUCCESS, 200) without calling the client
NoCall == Call("none", {})

\* _handle_compute
handle_compute(event_type) ==
    IF event_type = "create" THEN Call("create_compute", {"flavor"})
    ELSE IF event_type = "delete" THEN Call("delete_compute", {})
    ELSE IF event_type \in {"start", "stop", "update"}
    THEN Call("update_compute", {"state"})
    ELSE IF event_type = "resize" THEN Call("update_compute", {"flavor"})
    ELSE Call("update_compute", {"state", "flavor"})

\* the mutant sends the attach and detach events on as updates
handle_disk_patching(event_type) ==
    IF event_type = "create" THEN Call("create_disk", {"size_gb"})
    ELSE IF event_type = "delete" THEN Call("delete_disk", {})
    ELSE Call("update_disk", {"size_gb"})

\* _handle_disk
handle_disk(event_type) ==
    IF event_type = "create" THEN Call("create_disk", {"size_gb"})
    ELSE IF event_type = "delete" THEN Call("delete_disk", {})
    ELSE IF event_type = "resize" THEN Call("update_disk", {"size_gb"})
    ELSE IF event_type \in {"attach", "detach"} THEN NoCall
    ELSE Call("update_disk", {"size_gb"})

\* _handle_floating_ip
handle_floating_ip(event_type) ==
    IF event_type \in {"create", "allocate"} THEN Call("create_floating_ip", {})
    ELSE IF event_type \in {"delete", "release"} THEN Call("release_floating_ip", {})
    ELSE NoCall

\* process_event, lines 89-100: the handler of the event's resource type
Dispatch(body) ==
    IF body.resource_type = "compute" THEN handle_compute(body.event_type)
    ELSE IF body.resource_type = "disk" THEN handle_disk(body.event_type)
    ELSE handle_floating_ip(body.event_type)

\* BillingAPIClient.update_compute / update_disk: the PATCH body holds the
\* given values that are set, and with none set no request is sent; the
\* creates fill in a default and the deletes carry no body
SendsRequest(call, payload) ==
    /\ call # NoCall
    /\ call[1] \in {"update_compute", "update_disk"} => call[2] \cap payload # {}

----------------------------------------------------------------------------
(* API client: BillingAPIClient._request *)

APIResults == {"success", "conflict", "not_found", "error"}

\* the HTTP statuses a response may carry, one or two of each class
Statuses == {200, 201, 307, 400, 404, 409, 422, 500}

\* response.content: empty, a JSON document, or text that is no JSON
Contents == {"empty", "json", "text"}

\* what one client.request(...) can come to: a response, or an exception
Response(status, content) == [kind |-> "response", status |-> status, content |-> content]

Raised(kind) == [kind |-> kind, status |-> 0, content |-> "empty"]

AttemptOutcomes ==
    {Response(st, c) : st \in Statuses, c \in Contents}
        \cup {Raised("timeout"), Raised("connect_error"), Raised("exception")}

\* the mutant takes every status of 400 and more for an error
Classify_plain(response) ==
    IF response.status >= 400 THEN "error" ELSE "success"

\* lines 82 and 106: response.json() is called on the content of a 409 and
\* of a status below 400, outside any try of its own, and raises on content
\* that is no JSON
JsonRaises(response) ==
    /\ response.content = "text"
    /\ response.status = 409 \/ response.status < 400

\* _request, lines 78-107 and 129-135: the APIResult of a response; a raise
\* of response.json() is caught by the last except and gives ERROR
Classify(response) ==
    IF JsonRaises(response) THEN "error"
    ELSE IF response.status = 409 THEN "conflict"
    ELSE IF response.status = 404 THEN "not_found"
    ELSE IF response.status >= 400 THEN "error"
    ELSE "success"

\* no _request call is under way
NoRequest ==
    [pc |-> "none", delivery |-> 0, attempt |-> 0, waits |-> <<>>,
     result |-> "none", status_code |-> 0, last |-> Raised("none"),
     wallet |-> "none"]

\* api_config.retry_delay, in seconds
RetryDelay == 1

\* the mutant retries after any failed attempt, a 5xx response included
Retryable_any(outcome) ==
    outcome.kind \in {"timeout", "connect_error"} \/ outcome.status >= 500

\* _request, lines 109 and 119: the exceptions after which the loop goes on
Retryable(outcome) == outcome.kind \in {"timeout", "connect_error"}

\* _request, lines 74-141: one pass of the loop, client.request(...) coming
\* to the given outcome
request_attempt(outcome) ==
    /\ request.pc = "attempt"
    /\ request' =
          IF Retryable(outcome)
          THEN IF request.attempt = RetryCount - 1
               THEN [request EXCEPT !.pc = "returned", !.result = "error",
                                    !.attempt = @ + 1, !.last = outcome]
               ELSE [request EXCEPT
                       !.attempt = @ + 1, !.last = outcome,
                       !.waits = Append(@, RetryDelay * (request.attempt + 1))]
          ELSE IF outcome.kind = "exception"
          THEN [request EXCEPT !.pc = "returned", !.result = "error",
                               !.attempt = @ + 1, !.last = outcome]
          ELSE [request EXCEPT
                  !.pc = "returned", !.result = Classify(outcome),
                  !.attempt = @ + 1, !.last = outcome,
                  !.status_code = IF JsonRaises(outcome) THEN 0
                                  ELSE outcome.status]
    /\ UNCHANGED <<apiVars, shutdown, deliveries, batch, flushes>>

----------------------------------------------------------------------------
(* Queue consumer: MQConsumer._process_message, non-batched mode *)

\* a message is published to the exchange and routed to the work queue
publish(d, body) ==
    /\ deliveries[d].state = "none"
    /\ \A e \in Deliveries : e < d => deliveries[e].state # "none"
    /\ deliveries' = [deliveries EXCEPT ![d] =
          [NoDelivery EXCEPT !.body = body, !.state = "ready"]]
    /\ UNCHANGED <<apiVars, shutdown, batch, flushes, request>>

\* message.body.decode(), json.loads and body["_routing_key"] = ...: what
\* lines 191-192 come to
Decoded(body) ==
    IF body.kind = "bad_json" THEN "json_error"
    ELSE IF body.kind \in {"bad_bytes", "not_object"} THEN "exception"
    ELSE "ok"

\* lines 206-214: the delivery is rejected to the DLQ on a JSONDecodeError
\* and nacked with requeue on any other exception
Undecoded(delivery) ==
    IF Decoded(delivery.body) = "json_error"
    THEN [delivery EXCEPT !.state = "dlq", !.receipts = @ + 1,
                          !.result = "json_error"]
    ELSE [delivery EXCEPT !.state = "ready", !.receipts = @ + 1,
                          !.result = "exception"]

\* the mutant counts a not_found as handled
Succeeded_lenient(result) == result \in {"success", "conflict", "not_found"}

\* process_event, line 104: success of the ProcessingResult
Succeeded(result) == result \in {"success", "conflict"}

\* the mutant rejects every delivery that was not handled
Settled_delivery_rejecting(delivery, result) ==
    [delivery EXCEPT !.state = IF Succeeded(result) THEN "acked" ELSE "dlq",
                     !.result = result]

\* lines 199-204: ack when there is a result and it is a success, else nack
\* with requeue ("nil" stands for the None of a message that did not parse)
Settled_delivery(delivery, result) ==
    [delivery EXCEPT !.state = IF result # "nil" /\ Succeeded(result)
                                THEN "acked" ELSE "ready",
                     !.result = result]

\* _process_message without batching, up to the handler's first await: the
\* body is decoded, parsed and dispatched; a message that makes no request
\* is settled at once
receive_direct(d) ==
    /\ deliveries[d].state = "ready"
    /\ deliveries[d].receipts < MaxReceipts
    /\ request.pc = "none"
    /\ LET delivery == deliveries[d]
           body == delivery.body
           call == Dispatch(body)
       IN  IF Decoded(body) # "ok"
           THEN /\ deliveries' = [deliveries EXCEPT ![d] = Undecoded(delivery)]
                /\ UNCHANGED request
           ELSE IF body.kind = "nil"
           THEN /\ deliveries' = [deliveries EXCEPT ![d] =
                      Settled_delivery([delivery EXCEPT !.receipts = @ + 1,
                                                        !.call = <<>>], "nil")]
                /\ UNCHANGED request
           ELSE IF ~SendsRequest(call, body.payload)
           THEN /\ deliveries' = [deliveries EXCEPT ![d] =
                      Settled_delivery([delivery EXCEPT !.receipts = @ + 1,
                                                        !.call = call], "success")]
                /\ UNCHANGED request
           ELSE /\ deliveries' = [deliveries EXCEPT ![d] =
                      [delivery EXCEPT !.state = "unacked", !.receipts = @ + 1,
                                       !.call = call, !.result = "none"]]
                /\ request' = [NoRequest EXCEPT !.pc = "attempt", !.delivery = d]
    /\ UNCHANGED <<apiVars, shutdown, batch, flushes>>

\* _process_message without batching, from the handler's return: the
\* delivery is acked or nacked on the result of its request
finish_direct(d) ==
    /\ request.pc = "returned"
    /\ request.delivery = d
    /\ deliveries' = [deliveries EXCEPT ![d] = Settled_delivery(@, request.result)]
    /\ request' = NoRequest
    /\ UNCHANGED <<apiVars, shutdown, batch, flushes>>

----------------------------------------------------------------------------
(* Queue consumer: the wallet bootstrap of process_event (skip_wallet false) *)

\* what ensure_wallet_exists comes to: the wallet was found, it was not
\* found and create_wallet succeeded, conflicted or failed, get_wallet
\* failed (an error response or retry_count timeouts), or the call raised
BootstrapOutcomes ==
    {"found", "created", "create_conflict", "create_error", "error", "raised"}

\* the mutant lets an exception of the wallet check leave process_event's
\* inner try
wallet_check_raises_through(outcome) == outcome = "raised"

\* process_event, lines 83-87: the wallet check is in a try of its own
\* whose except logs and goes on; its return value is not looked at
wallet_check_raises(outcome) == FALSE

\* _process_message without batching, skip_wallet false, up to the first
\* await of the wallet check
receive_bootstrap(d) ==
    /\ deliveries[d].state = "ready"
    /\ deliveries[d].receipts < MaxReceipts
    /\ request.pc = "none"
    /\ deliveries[d].body.kind = "event"
    /\ deliveries' = [deliveries EXCEPT ![d] =
          [@ EXCEPT !.state = "unacked", !.receipts = @ + 1,
                    !.call = <<>>, !.result = "none"]]
    /\ request' = [NoRequest EXCEPT !.pc = "wallet", !.delivery = d]
    /\ UNCHANGED <<apiVars, shutdown, batch, flushes>>

\* process_event from the return of ensure_wallet_exists: the event is
\* dispatched; an exception that left the inner try would be caught by the
\* outer one (lines 129-139) and give a failed ProcessingResult
ensure_wallet_exists(outcome) ==
    /\ request.pc = "wallet"
    /\ LET d == request.delivery
           body == deliveries[d].body
           call == Dispatch(body)
       IN  IF wallet_check_raises(outcome)
           THEN /\ deliveries' = [deliveries EXCEPT ![d] =
                      Settled_delivery(@, "error")]
                /\ request' = NoRequest
           ELSE IF ~SendsRequest(call, body.payload)
           THEN /\ deliveries' = [deliveries EXCEPT ![d] =
                      Settled_delivery([@ EXCEPT !.call = call], "success")]
                /\ request' = NoRequest
           ELSE /\ deliveries' = [deliveries EXCEPT ![d].call = call]
                /\ request' = [request EXCEPT !.pc = "attempt", !.wallet = outcome]
    /\ UNCHANGED <<apiVars, shutdown, batch, flushes>>

----------------------------------------------------------------------------
(* Queue consumer: MessageBatcher and EventHandler.process_batch *)

\* a _process_batch call: the deliveries of its batch, whether _flush runs
\* it (holding the batcher's lock until it returns) or a task of its own
\* does, and where the handler of each message stands
NewFlush(msgs, timer) ==
    [msgs |-> msgs, timer |-> timer, handlers |-> [i \in 1..Len(msgs) |-> "waiting"]]

\* MessageBatcher._lock is held: _flush holds it while it awaits
\* _process_batch (add holds it too, but add does not await)
LockHeld == \E f \in 1..Len(flushes) : flushes[f].timer

\* the mutant starts the flush one message late
Full_late(pending) == Len(pending) > BatchSize

\* add, line 76: the batch is due
Full(pending) == Len(pending) >= BatchSize

\* _process_message with batching: a body that decodes is given to add,
\* which appends it under the lock and hands a full batch to a new
\* _process_batch task
receive_batched(d) ==
    /\ deliveries[d].state = "ready"
    /\ deliveries[d].receipts < MaxReceipts
    /\ LET delivery == deliveries[d]
           pending == Append(batch, d)
       IN  IF Decoded(delivery.body) # "ok"
           THEN /\ deliveries' = [deliveries EXCEPT ![d] = Undecoded(delivery)]
                /\ UNCHANGED <<batch, flushes>>
           ELSE /\ ~LockHeld
                /\ Full(pending) => Len(flushes) < MaxFlushes
                /\ deliveries' = [deliveries EXCEPT ![d] =
                      [delivery EXCEPT !.state = "unacked", !.receipts = @ + 1,
                                       !.call = <<>>, !.result = "none"]]
                /\ IF Full(pending)
                   THEN /\ batch' = <<>>
                        /\ flushes' = Append(flushes, NewFlush(pending, FALSE))
                   ELSE /\ batch' = pending
                        /\ UNCHANGED flushes
    /\ UNCHANGED <<apiVars, shutdown, request>>

\* _flush_loop: batch_timeout has passed; _flush takes the lock and runs
\* _process_batch on what the batch holds
flush_tick ==
    /\ ~LockHeld
    /\ batch # <<>>
    /\ Len(flushes) < MaxFlushes
    /\ flushes' = Append(flushes, NewFlush(batch, TRUE))
    /\ batch' = <<>>
    /\ UNCHANGED <<apiVars, shutdown, deliveries, request>>

\* the handlers of one process_batch call that hold its semaphore
Running(flush) ==
    Cardinality({i \in 1..Len(flush.msgs) : flush.handlers[i] = "running"})

\* the mutant shares no limit at all
SemaphoreFree_unlimited(flush) == TRUE

\* process_batch, lines 237-241: the semaphore is made by the call, for
\* the messages of its own batch
SemaphoreFree(flush) == Running(flush) < MaxConcurrent

\* process_with_limit takes the semaphore and process_message runs up to
\* its first await: a message that does not parse returns None, an event is
\* dispatched
handler_start(f, i) ==
    /\ f \in 1..Len(flushes)
    /\ i \in 1..Len(flushes[f].msgs)
    /\ flushes[f].handlers[i] = "waiting"
    /\ SemaphoreFree(flushes[f])
    /\ LET d == flushes[f].msgs[i]
           body == deliveries[d].body
           call == Dispatch(body)
       IN  IF body.kind = "nil"
           THEN /\ flushes' = [flushes EXCEPT ![f].handlers[i] = "done"]
                /\ deliveries' = [deliveries EXCEPT ![d].result = "nil"]
           ELSE IF ~SendsRequest(call, body.payload)
           THEN /\ flushes' = [flushes EXCEPT ![f].handlers[i] = "done"]
                /\ deliveries' = [deliveries EXCEPT ![d].result = "success",
                                                    ![d].call = call]
           ELSE /\ flushes' = [flushes EXCEPT ![f].handlers[i] = "running"]
                /\ deliveries' = [deliveries EXCEPT ![d].call = call]
    /\ UNCHANGED <<apiVars, shutdown, batch, request>>

\* the request of a handler returns its APIResponse and process_event its
\* ProcessingResult; the semaphore is released
handler_finish(f, i, result) ==
    /\ f \in 1..Len(flushes)
    /\ i \in 1..Len(flushes[f].msgs)
    /\ flushes[f].handlers[i] = "running"
    /\ flushes' = [flushes EXCEPT ![f].handlers[i] = "done"]
    /\ deliveries' = [deliveries EXCEPT ![flushes[f].msgs[i]].result = result]
    /\ UNCHANGED <<apiVars, shutdown, batch, request>>

\* the results of the handlers of a batch, in the order of its messages
HandlerResults(msgs) == [i \in 1..Len(msgs) |-> deliveries[msgs[i]].result]

\* the mutant returns a result for every message, None included
processed_results_all(results) == results

\* process_batch, lines 246-253: the results that are not None (nor an
\* exception) are returned, in order
processed_results(results) == SelectSeq(results, LAMBDA r : r # "nil")

\* _process_batch, lines 103-108: zip(raw_messages, results) pairs the i-th
\* delivery with the i-th result returned; a delivery past the end of the
\* results is neither acked nor nacked
Zipped(msgs, results, d) ==
    LET at == CHOOSE i \in 1..Len(msgs) : msgs[i] = d
    IN  IF at <= Len(results)
        THEN [deliveries[d] EXCEPT
                !.state = IF results[at] # "nil" /\ Succeeded(results[at])
                          THEN "acked" ELSE "ready"]
        ELSE deliveries[d]

\* _process_batch once gather has returned: every delivery paired with a
\* result is acked or nacked, and the call returns
settle_batch(f) ==
    /\ f \in 1..Len(flushes)
    /\ \A i \in 1..Len(flushes[f].msgs) : flushes[f].handlers[i] = "done"
    /\ LET msgs == flushes[f].msgs
           results == processed_results(HandlerResults(msgs))
           batched == {msgs[i] : i \in 1..Len(msgs)}
       IN  deliveries' = [d \in Deliveries |->
              IF d \in batched THEN Zipped(msgs, results, d) ELSE deliveries[d]]
    /\ flushes' = SubSeq(flushes, 1, f - 1) \o SubSeq(flushes, f + 1, Len(flushes))
    /\ UNCHANGED <<apiVars, shutdown, batch, request>>

----------------------------------------------------------------------------
(* Queue consumer: GracefulShutdown.shutdown *)

\* the broker channel is open: MQConsumer.disconnect has not closed it
ChannelOpen == shutdown \in {"none", "stopped", "flushing"}

\* MessageBatcher._flush_loop runs: stop has not cancelled it
LoopRunning == shutdown \in {"none", "stopped"}

\* close_api_client has not run
ClientOpen == shutdown # "client_closed"

\* shutdown, line 36: MQConsumer.stop sets _running to False and does
\* nothing else; the consume callback stays registered
stop_consumer ==
    /\ shutdown = "none"
    /\ shutdown' = "stopped"
    /\ UNCHANGED <<apiVars, deliveries, batch, flushes, request>>

\* the mutant lets stop wait for every _process_batch call under way
Cancelled_none(calls) == calls

\* MessageBatcher.stop, lines 64-69: the flush task is cancelled; a
\* _process_batch it was awaiting ends with CancelledError, which the
\* 'except Exception' of lines 112-118 does not catch, so its deliveries are
\* neither acked nor nacked; the calls started by add go on
Cancelled(calls) == SelectSeq(calls, LAMBDA call : ~call.timer)

\* MQConsumer.disconnect, line 176: MessageBatcher.stop cancels the flush
\* loop and then awaits _flush, which takes the lock and runs
\* _process_batch on the pending batch
stop_batcher ==
    /\ shutdown = "stopped"
    /\ shutdown' = "flushing"
    /\ batch # <<>> => Len(Cancelled(flushes)) < MaxFlushes
    /\ IF batch # <<>>
       THEN /\ flushes' = Append(Cancelled(flushes), NewFlush(batch, TRUE))
            /\ batch' = <<>>
       ELSE /\ flushes' = Cancelled(flushes)
            /\ UNCHANGED batch
    /\ UNCHANGED <<apiVars, deliveries, request>>

\* disconnect, lines 178-182: once the _flush of stop has returned, the
\* channel and the connection are closed
close_channel ==
    /\ shutdown = "flushing"
    /\ ~LockHeld
    /\ shutdown' = "channel_closed"
    /\ UNCHANGED <<apiVars, deliveries, batch, flushes, request>>

\* shutdown, line 39: close_api_client closes the httpx client
close_api_client ==
    /\ shutdown = "channel_closed"
    /\ shutdown' = "client_closed"
    /\ UNCHANGED <<apiVars, deliveries, batch, flushes, request>>

\* the broker delivers to the consume callback for as long as the channel
\* is open
deliver(d) == ChannelOpen /\ receive_batched(d)

\* the flush loop ticks until it is cancelled
flush_loop == LoopRunning /\ flush_tick

\* _process_batch settles its deliveries on the open channel
settle_open(f) == ChannelOpen /\ settle_batch(f)

\* _process_batch after the channel was closed: every ack and nack raises,
\* lines 109-110 log it, and the deliveries stay as they were
settle_closed(f) ==
    /\ ~ChannelOpen
    /\ f \in 1..Len(flushes)
    /\ \A i \in 1..Len(flushes[f].msgs) : flushes[f].handlers[i] = "done"
    /\ flushes' = SubSeq(flushes, 1, f - 1) \o SubSeq(flushes, f + 1, Len(flushes))
    /\ UNCHANGED <<apiVars, shutdown, deliveries, batch, request>>

WalletStep(p) ==
    \/ \E u \in Users, b \in Balances, an \in BOOLEAN :
          create_wallet(p, u, b, an)
    \/ \E u \in Users, a \in Amounts : add_credit_query(p, u, a)
    \/ add_credit_commit(p)
    \/ \E u \in Users, a \in Amounts : add_debit_query(p, u, a)
    \/ add_debit_commit(p)
    \/ add_transaction(p)
    \/ add_transaction_raises(p)
    \/ close_session(p)

Init ==
    /\ now = 0
    /\ wallet = [u \in Users |-> NoWallet]
    /\ archive = [u \in Users |-> <<>>]
    /\ bills = <<>>
    /\ computes = [r \in Computes |-> NoCompute]
    /\ procs = [p \in Procs |-> IdleProc]
    /\ failures = 0
    /\ pricing = FALSE
    /\ disks = [r \in Disks |-> NoDisk]
    /\ fips = [r \in Fips |-> NoFip]
    /\ dupes = [r \in Computes |-> <<>>]
    /\ deliveries = [d \in Deliveries |-> NoDelivery]
    /\ batch = <<>>
    /\ flushes = <<>>
    /\ request = NoRequest
    /\ shutdown = "none"
    /\ ledger = [u \in Users |-> 0]
    /\ billed = NoTime

\* the updates of a compute the requests carry: stop, start, delete, resize
Updates ==
    {<<"stopped", NoFlavor>>, <<"running", NoFlavor>>, <<"deleted", NoFlavor>>,
     <<NoState, "medium">>}

StoreStep(p) ==
    \/ \E r \in Computes, u \in Users : create_compute(p, r, u, "small")
    \/ \E r \in Computes, x \in Updates : update_compute(p, r, x[1], x[2])

\* the period_end a billing request carries: none, or a time up to the latest
\* the clock reaches
PeriodEnds == 0..MaxTime \cup {NoTime}

\* the period_end of the interleaved billing requests: a time up to an hour
\* past the latest the clock reaches
LatePeriodEnds == 0..(MaxTime + 1)

BillingStep(p) ==
    \/ \E u \in Users, pe \in PeriodEnds : compute_bill(p, u, pe)
    \/ list_computes(p)
    \/ bill_compute(p)
    \/ list_disks(p)
    \/ list_floating_ips(p)
    \/ bill_persist(p)
    \/ add_debit_query_nested(p)
    \/ add_debit_commit(p)
    \/ add_transaction(p)
    \/ add_transaction_raises(p)
    \/ bill_settle(p)
    \/ \E b \in 1..(MaxBills + 1) : retry_failed_bill(p, b)
    \/ retry_settle(p)
    \/ close_session(p)

\* wallet requests handled one at a time
NextWallet == Tick \/ WalletStep("p1")
SpecWallet == Init /\ [][NextWallet]_vars

\* wallet requests of two clients, interleaved
NextWalletConc == \E p \in Procs : WalletStep(p)
SpecWalletConc == Init /\ [][NextWalletConc]_vars

\* billing, retry and resource requests handled one at a time; no disk and
\* no floating IP exists, so the listings of both are empty
NextBilling ==
    \/ Tick
    \/ create_price("p1")
    \/ \E u \in Users, an \in BOOLEAN : create_wallet("p1", u, 0, an)
    \/ StoreStep("p1")
    \/ BillingStep("p1")
SpecBilling == Init /\ [][NextBilling]_vars

\* billing requests of two clients for one user, interleaved
NextBillingConc ==
    \/ Tick
    \/ \E p \in Procs :
          \/ create_price(p)
          \/ \E u \in Users : create_wallet(p, u, 0, TRUE)
          \/ \E r \in Computes, u \in Users : create_compute(p, r, u, "small")
          \/ \E u \in Users, pe \in LatePeriodEnds : compute_bill(p, u, pe)
          \/ list_computes(p)
          \/ bill_compute(p)
          \/ list_disks(p)
          \/ list_floating_ips(p)
          \/ bill_persist(p)
          \/ add_debit_query_nested(p)
          \/ add_debit_commit(p)
          \/ add_transaction(p)
          \/ bill_settle(p)
          \/ close_session(p)
SpecBillingConc == Init /\ [][NextBillingConc]_vars

\* time passes, in the specifications of usage over several hours
UsageTick ==
    /\ now < MaxUsageTime
    /\ now' = now + 1
    /\ UNCHANGED <<wallet, archive, bills, computes, procs, failures, ledger, billed,
                   pricing, disks, fips, dupes,
                   mqVars>>

UsagePeriodEnds == 0..MaxUsageTime \cup {NoTime}

\* the steps of a billing run whose settlement meets no failure
BillingRun(p) ==
    \/ \E u \in Users, pe \in UsagePeriodEnds : compute_bill(p, u, pe)
    \/ list_computes(p)
    \/ list_disks(p)
    \/ list_floating_ips(p)
    \/ bill_persist(p)
    \/ add_debit_query_nested(p)
    \/ add_debit_commit(p)
    \/ add_transaction(p)
    \/ bill_settle(p)
    \/ close_session(p)

\* usage of a compute and of a floating IP over several hours, billed by
\* requests handled one at a time
NextUsage ==
    \/ UsageTick
    \/ create_price("p1")
    \/ \E u \in Users : create_wallet("p1", u, 0, TRUE)
    \/ StoreStep("p1")
    \/ \E r \in Fips, u \in Users : create_floating_ip("p1", r, u)
    \/ \E r \in Fips : release_floating_ip("p1", r)
    \/ bill_compute("p1")
    \/ bill_floating_ip("p1")
    \/ BillingRun("p1")
SpecUsage == Init /\ [][NextUsage]_vars

\* the updates of a disk the requests carry: attach, detach, delete, resize
DiskUpdates ==
    {<<"attached", NoSize>>, <<"detached", NoSize>>, <<"deleted", NoSize>>,
     <<NoState, 2>>}

\* usage of a disk over several hours, billed by requests handled one at a
\* time
NextDisk ==
    \/ UsageTick
    \/ create_price("p1")
    \/ \E u \in Users : create_wallet("p1", u, 0, TRUE)
    \/ \E r \in Disks, u \in Users : create_disk("p1", r, u, 1)
    \/ \E r \in Disks, x \in DiskUpdates : update_disk("p1", r, x[1], x[2])
    \/ bill_disk("p1")
    \/ BillingRun("p1")
SpecDisk == Init /\ [][NextDisk]_vars

\* the period_end of a request that bills ahead of the clock
AheadPeriodEnds == 1..MaxTime

\* billing and retry requests of two clients for one user, interleaved; the
\* price schedule, the wallet and the compute are set up by the first; the
\* clock stands still and the requests bill ahead of it
NextSettleConc ==
    \/ create_price("p1")
    \/ \E u \in Users : create_wallet("p1", u, 0, TRUE)
    \/ \E r \in Computes, u \in Users : create_compute("p1", r, u, "small")
    \/ \E p \in Procs :
          \/ \E u \in Users, pe \in AheadPeriodEnds : compute_bill(p, u, pe)
          \/ list_computes(p)
          \/ bill_compute(p)
          \/ list_disks(p)
          \/ list_floating_ips(p)
          \/ bill_persist(p)
          \/ add_debit_query_nested(p)
          \/ add_debit_commit(p)
          \/ add_transaction(p)
          \/ add_transaction_raises(p)
          \/ bill_settle(p)
          \/ \E b \in 1..(MaxBills + 1) : retry_failed_bill(p, b)
          \/ retry_settle(p)
          \/ close_session(p)
SpecSettleConc == Init /\ [][NextSettleConc]_vars

\* create requests of two clients for one resource_id, interleaved
NextCreateConc ==
    \/ Tick
    \/ \E p \in Procs :
          \/ \E r \in Computes, u \in Users, f \in {"small", "medium"} :
                create_compute_get(p, r, u, f)
          \/ create_compute_insert(p)
          \/ \E r \in Computes, x \in Updates : update_compute(p, r, x[1], x[2])
          \/ close_session(p)
SpecCreateConc == Init /\ [][NextCreateConc]_vars

\* debit requests of two clients on one wallet, interleaved
\* the update, delete and release requests while the event log of the
\* resource is short of MaxLogEvents
patch_compute(p, r, state, flavor) ==
    /\ Len(computes[r].events) < MaxLogEvents
    /\ update_compute_request(p, r, state, flavor)

patch_disk(p, r, state, size_gb) ==
    /\ Len(disks[r].events) < MaxLogEvents
    /\ update_disk_request(p, r, state, size_gb)

delete_floating_ip(p, r) ==
    /\ Len(fips[r].events) < MaxLogEvents
    /\ release_floating_ip_request(p, r)

\* the upstream messages of one compute: the time the source stamped each
\* with (ParsedEvent.timestamp) and the update its event comes to
Messages ==
    {[timestamp |-> 0, state |-> "stopped", flavor |-> NoFlavor],
     [timestamp |-> 1, state |-> "running", flavor |-> NoFlavor],
     [timestamp |-> 0, state |-> NoState, flavor |-> "medium"],
     [timestamp |-> 1, state |-> "deleted", flavor |-> NoFlavor]}

\* the message has been applied to the compute
Applied(r, m) ==
    \E i \in 1..Len(computes[r].events) :
        computes[r].events[i].type = UpdateEvent(m.state, m.flavor).type

\* the consumer applies a message, at some time after it was stamped:
\* _handle_compute gives update_compute the state or the flavor of the
\* payload, the PATCH body holds nothing else, and the store stamps the
\* event itself
apply_message(p, r, m) ==
    /\ computes[r].exists
    /\ now >= m.timestamp
    /\ ~Applied(r, m)
    /\ patch_compute(p, r, m.state, m.flavor)

\* the messages of one compute applied once each, in any order
NextOrder ==
    \/ Tick
    \/ \E r \in Computes, u \in Users : create_compute("p1", r, u, "small")
    \/ \E r \in Computes, m \in Messages : apply_message("p1", r, m)
    \/ close_session("p1")
SpecOrder == Init /\ [][NextOrder]_vars

\* the last entry of the archive is the credit of the given amount
LastCredit(u, amount) ==
    /\ archive[u] # <<>>
    /\ archive[u][Len(archive[u])].type = "credit"
    /\ archive[u][Len(archive[u])].reason = "manual"
    /\ archive[u][Len(archive[u])].amount = format_amount(amount)

\* a client credits a wallet that has no credit awaiting its debit
credit_first(p, u, amount) ==
    /\ \A x \in Amounts : ~LastCredit(u, x)
    /\ add_credit_query(p, u, amount)

\* the client debits the amount it credited last
debit_same(p, u, amount) ==
    /\ LastCredit(u, amount)
    /\ add_debit_query(p, u, amount)

\* credits each followed by the debit of the same amount, one request at
\* a time and no failure
NextPair ==
    \/ \E u \in Users, b \in Balances, an \in BOOLEAN : create_wallet("p1", u, b, an)
    \/ \E u \in Users, x \in Amounts : credit_first("p1", u, x)
    \/ \E u \in Users, x \in Amounts : debit_same("p1", u, x)
    \/ add_credit_commit("p1")
    \/ add_debit_commit("p1")
    \/ add_transaction("p1")
    \/ close_session("p1")
SpecPair == Init /\ [][NextPair]_vars

\* every update of a compute a PATCH can carry: a state, a flavor, both,
\* or neither
AllUpdates ==
    Updates \cup {<<"stopped", "medium">>, <<"running", "medium">>,
                  <<NoState, NoFlavor>>}

\* the resource store alone, one request at a time, the clock standing
NextLog ==
    \/ \E r \in Computes, u \in Users : create_compute("p1", r, u, "small")
    \/ \E r \in Computes, x \in AllUpdates : patch_compute("p1", r, x[1], x[2])
    \/ \E r \in Disks, u \in Users : create_disk("p1", r, u, 1)
    \/ \E r \in Disks, x \in DiskUpdates : patch_disk("p1", r, x[1], x[2])
    \/ \E r \in Fips, u \in Users : create_floating_ip("p1", r, u)
    \/ \E r \in Fips : delete_floating_ip("p1", r)
    \/ close_session("p1")
SpecLog == Init /\ [][NextLog]_vars

\* the bodies published where the claims are about undecodable and
\* unparseable messages: one of each kind that is no event, an event that
\* makes a request and one that makes none
DirectBodies ==
    {Plain(k) : k \in BodyKinds \ {"event"}}
        \cup {Body("event", "compute", "create", {"flavor"}),
              Body("event", "disk", "attach", {})}

\* the outcomes of client.request(...) where the claims are not about the
\* classification: a response of each APIResult, a timeout, a raise
FewOutcomes ==
    {Response(201, "json"), Response(409, "json"), Response(404, "json"),
     Response(500, "json"), Raised("timeout"), Raised("exception")}

\* the consumer without batching (use_batching = False)
NextDirect ==
    \/ \E d \in Deliveries, body \in DirectBodies : publish(d, body)
    \/ \E d \in Deliveries : receive_direct(d)
    \/ \E outcome \in FewOutcomes : request_attempt(outcome)
    \/ \E d \in Deliveries : finish_direct(d)
SpecDirect == Init /\ [][NextDirect]_vars

\* the bodies published to the batching consumer: a message that does not
\* parse and an event that makes a request
BatchedBodies == {Plain("nil"), Body("event", "compute", "create", {"flavor"})}

\* the consumer with batching (use_batching = True, the default)
NextBatched ==
    \/ \E d \in Deliveries, body \in BatchedBodies : publish(d, body)
    \/ \E d \in Deliveries : receive_batched(d)
    \/ flush_tick
    \/ \E f \in 1..MaxFlushes, i \in 1..BatchSize : handler_start(f, i)
    \/ \E f \in 1..MaxFlushes, i \in 1..BatchSize, result \in APIResults :
          handler_finish(f, i, result)
    \/ \E f \in 1..MaxFlushes : settle_batch(f)
SpecBatched == Init /\ [][NextBatched]_vars

\* the handler with the wallet check, on one message at a time
BootstrapBodies ==
    {Body("event", "compute", "create", {"flavor"}),
     Body("event", "compute", "update", {}),
     Body("event", "disk", "attach", {}),
     Body("event", "floating_ip", "release", {})}
NextBootstrap ==
    \/ \E body \in BootstrapBodies : publish(1, body)
    \/ receive_bootstrap(1)
    \/ \E outcome \in BootstrapOutcomes : ensure_wallet_exists(outcome)
    \/ \E outcome \in FewOutcomes : request_attempt(outcome)
    \/ finish_direct(1)
SpecBootstrap == Init /\ [][NextBootstrap]_vars

\* the batching consumer and its shutdown
NextShutdown ==
    \/ \E d \in Deliveries, body \in BatchedBodies : publish(d, body)
    \/ \E d \in Deliveries : deliver(d)
    \/ flush_loop
    \/ \E f \in 1..MaxFlushes, i \in 1..BatchSize : handler_start(f, i)
    \/ \E f \in 1..MaxFlushes, i \in 1..BatchSize, result \in {"success", "error"} :
          handler_finish(f, i, result)
    \/ \E f \in 1..MaxFlushes : settle_open(f)
    \/ \E f \in 1..MaxFlushes : settle_closed(f)
    \/ stop_consumer
    \/ stop_batcher
    \/ close_channel
    \/ close_api_client

\* the event loop runs every task that can run, and a signal arrives
FairShutdown ==
    /\ WF_vars(flush_loop)
    /\ WF_vars(\E f \in 1..MaxFlushes, i \in 1..BatchSize : handler_start(f, i))
    /\ WF_vars(\E f \in 1..MaxFlushes, i \in 1..BatchSize, result \in {"success", "error"} :
                  handler_finish(f, i, result))
    /\ WF_vars(\E f \in 1..MaxFlushes : settle_open(f))
    /\ WF_vars(\E f \in 1..MaxFlushes : settle_closed(f))
    /\ WF_vars(stop_consumer) /\ WF_vars(stop_batcher)
    /\ WF_vars(close_channel) /\ WF_vars(close_api_client)
SpecShutdown == Init /\ [][NextShutdown]_vars /\ FairShutdown

\* the batching consumer with a shutdown that may come or not: the event
\* loop runs every task that can run and shutdown(), once begun, goes on
FairSettle ==
    /\ WF_vars(flush_loop)
    /\ WF_vars(\E f \in 1..MaxFlushes, i \in 1..BatchSize : handler_start(f, i))
    /\ WF_vars(\E f \in 1..MaxFlushes, i \in 1..BatchSize, result \in {"success", "error"} :
                  handler_finish(f, i, result))
    /\ WF_vars(\E f \in 1..MaxFlushes : settle_open(f))
    /\ WF_vars(\E f \in 1..MaxFlushes : settle_closed(f))
    /\ WF_vars(stop_batcher)
    /\ WF_vars(close_channel) /\ WF_vars(close_api_client)
SpecSettleFair == Init /\ [][NextShutdown]_vars /\ FairSettle

\* the batcher alone: every message parses and every request succeeds, so
\* that no delivery comes back
BatcherBodies == {Body("event", "compute", "create", {"flavor"})}
BatcherResults == {"success"}
NextBatcher ==
    \/ \E d \in Deliveries, body \in BatcherBodies : publish(d, body)
    \/ \E d \in Deliveries : receive_batched(d)
    \/ flush_tick
    \/ \E f \in 1..MaxFlushes, i \in 1..BatchSize : handler_start(f, i)
    \/ \E f \in 1..MaxFlushes, i \in 1..BatchSize, result \in BatcherResults :
          handler_finish(f, i, result)
    \/ \E f \in 1..MaxFlushes : settle_batch(f)

\* while the batcher runs, _flush_loop wakes every batch_timeout and the
\* event loop runs every task that can run: handlers take the semaphore,
\* requests return (they time out at the latest) and _process_batch settles
FairBatcher ==
    /\ WF_vars(flush_tick)
    /\ WF_vars(\E f \in 1..MaxFlushes, i \in 1..BatchSize : handler_start(f, i))
    /\ WF_vars(\E f \in 1..MaxFlushes, i \in 1..BatchSize, result \in BatcherResults :
                  handler_finish(f, i, result))
    /\ WF_vars(\E f \in 1..MaxFlushes : settle_batch(f))
SpecBatcherFair == Init /\ [][NextBatcher]_vars /\ FairBatcher

\* the events of every resource type and event type, with every payload key
\* set or none
EventBodies ==
    {Body("event", rt, et, keys) :
        rt \in ResourceTypes, et \in EventTypes, keys \in {{}, PayloadKeys}}

\* the handler and the API client on one message at a time, over every
\* event and every outcome of an attempt
NextHandler ==
    \/ \E body \in EventBodies : publish(1, body)
    \/ receive_direct(1)
    \/ \E outcome \in AttemptOutcomes : request_attempt(outcome)
    \/ finish_direct(1)
SpecHandler == Init /\ [][NextHandler]_vars

\* every client.request(...) returns or raises (httpx.Timeout bounds each
\* attempt), and asyncio.sleep returns
FairHandler == WF_vars(\E outcome \in AttemptOutcomes : request_attempt(outcome))
SpecHandlerFair == Init /\ [][NextHandler]_vars /\ FairHandler

\* the resource routes handled one at a time: creates, updates, deletes and
\* releases, repeated ones included
NextStore ==
    \/ Tick
    \/ \E r \in Computes, u \in Users : create_compute("p1", r, u, "small")
    \/ \E r \in Computes, x \in Updates : patch_compute("p1", r, x[1], x[2])
    \/ \E r \in Disks, u \in Users : create_disk("p1", r, u, 1)
    \/ \E r \in Disks, x \in DiskUpdates : patch_disk("p1", r, x[1], x[2])
    \/ \E r \in Fips, u \in Users : create_floating_ip("p1", r, u)
    \/ \E r \in Fips : delete_floating_ip("p1", r)
    \/ close_session("p1")
SpecStore == Init /\ [][NextStore]_vars

NextDebitConc ==
    \E p \in Procs :
        \/ \E u \in Users, b \in Balances, an \in BOOLEAN :
              create_wallet(p, u, b, an)
        \/ \E u \in Users, a \in Amounts : add_debit_query(p, u, a)
        \/ add_debit_commit(p)
        \/ add_transaction(p)
        \/ close_session(p)
SpecDebitConc == Init /\ [][NextDebitConc]_vars

----------------------------------------------------------------------------
(* The wallet ledger's properties *)

\* C1: after any sequence of wallet create, credit and debit operations,
\* every pair of consecutive archive entries i-1, i of a wallet satisfies
\* balance_after[i] = balance_after[i-1] + amount[i].
C1_ArchiveChain ==
    \A u \in Users : \A i \in 2..Len(archive[u]) :
        archive[u][i].balance_after
            = archive[u][i - 1].balance_after + archive[u][i].amount

C3_DebitsSerialize ==
    (\A p \in Procs : Idle(p) \/ Done(p)) =>
        \A u \in Users : wallet[u].exists =>
            /\ wallet[u].balance = ledger[u]
            /\ \A p \in Procs : procs[p].op = "debit" /\ procs[p].result = "ok" =>
                  \E i \in 1..Len(archive[u]) : archive[u][i].type = "debit"

\* C4: a credit or debit whose archive append fails leaves the wallet's
\* balance and last_deducted_at at their values before the operation.
C4_AppendFailureRollsBack ==
    [][\A p \in Procs :
          (/\ procs[p].pc = "append"
           /\ procs[p].op \in {"credit", "debit"}
           /\ procs'[p].pc = "done"
           /\ procs'[p].result = "exception")
          => (/\ wallet'[procs[p].user].balance = procs[p].bal
              /\ wallet'[procs[p].user].last_deducted_at = procs[p].lda)]_vars

----------------------------------------------------------------------------
(* The billing engine's properties *)

SecondRun(p) ==
    /\ procs[p].op = "compute_bill"
    /\ procs[p].pc = "bill_fips"
    /\ procs[p].todo = <<>>
    /\ procs[p].period_end = billed

DebitEntry(b) ==
    \E i \in 1..Len(archive[bills[b].user_id]) :
        LET tx == archive[bills[b].user_id][i]
        IN  tx.type = "debit" /\ tx.bill = b /\ tx.amount = -bills[b].total

StatusTransitions ==
    {<<"pending", "success">>, <<"pending", "failed">>, <<"failed", "success">>}

----------------------------------------------------------------------------
(* The usage charges' properties *)

RECURSIVE InForce(_, _, _, _)
InForce(events, h, flavor, state) ==
    IF events = <<>> THEN [flavor |-> flavor, state |-> state]
    ELSE LET e == Head(events)
         IN  IF e.time > h THEN InForce(Tail(events), h, flavor, state)
             ELSE IF e.type = "create"
             THEN InForce(Tail(events), h, e.flavor, "running")
             ELSE IF e.type = "resize"
             THEN InForce(Tail(events), h, e.flavor, state)
             ELSE InForce(Tail(events), h, flavor, e.type)

\* hours times rate over the running hours of [from, to)
RECURSIVE RunningCharge(_, _, _)
RunningCharge(events, from, to) ==
    IF from >= to THEN 0
    ELSE LET f == InForce(events, from, NoFlavor, NoState)
         IN  (IF f.state = "running" THEN Rate(f.flavor) ELSE 0)
             + RunningCharge(events, from + 1, to)

RECURSIVE SizeInForce(_, _, _, _)
SizeInForce(events, h, size, deleted) ==
    IF events = <<>> THEN (IF deleted THEN NoSize ELSE size)
    ELSE LET e == Head(events)
         IN  IF e.time > h THEN SizeInForce(Tail(events), h, size, deleted)
             ELSE SizeInForce(Tail(events), h,
                              IF e.type \in {"create", "resize"} THEN e.size_gb ELSE size,
                              deleted \/ e.type = "deleted")

\* size times rate over the hours of [from, to) before the first deletion
RECURSIVE SizedCharge(_, _, _)
SizedCharge(events, from, to) ==
    IF from >= to THEN 0
    ELSE SizeInForce(events, from, NoSize, FALSE) * DiskPrice
         + SizedCharge(events, from + 1, to)

RECURSIVE FirstRelease(_)
FirstRelease(events) ==
    IF events = <<>> THEN NoTime
    ELSE IF Head(events).type = "release" THEN Head(events).time
    ELSE FirstRelease(Tail(events))

\* where the charge of a floating IP ends: its first release when that is
\* before period_end
ReleasedEnd(fip, period_end) ==
    LET first == FirstRelease(fip.events)
    IN  IF first # NoTime /\ first < period_end THEN first ELSE period_end

\* a run that is through the user's floating IPs has billed every one of
\* them that was released by period_end up to its first release
ReleasedBilled ==
    \A p \in Procs :
        (procs[p].op = "compute_bill" /\ procs[p].pc = "bill_fips"
            /\ procs[p].todo = <<>>)
        => \A r \in Fips :
              (/\ fips[r].exists
               /\ fips[r].user_id = procs[p].user
               /\ FirstRelease(fips[r].events) # NoTime
               /\ FirstRelease(fips[r].events) <= procs[p].period_end)
              => fips[r].last_billed_until >= FirstRelease(fips[r].events)

RECURSIVE SumCharges(_)
SumCharges(charges) ==
    IF charges = <<>> THEN 0
    ELSE Head(charges).amount + SumCharges(Tail(charges))

----------------------------------------------------------------------------
(* compute_bill's period, empty bills and refusals *)

ChargePass == {"list_computes", "bill_computes", "bill_disks", "bill_fips"}

C19_RefusedPersistsNothing ==
    [][\A p \in Procs :
          (/\ procs[p].pc = "idle"
           /\ procs'[p].op = "compute_bill"
           /\ (~wallet[procs'[p].user].exists \/ ~pricing))
          => (/\ procs'[p].pc = "done"
              /\ procs'[p].result \in {"error", "no_pricing"}
              /\ bills' = bills
              /\ computes' = computes /\ disks' = disks /\ fips' = fips
              /\ wallet' = wallet
              /\ archive' = archive)]_vars

\* a request was refused for want of a price schedule while the user has a
\* wallet and a running compute with usage to bill
C19_Witness ==
    \E p \in Procs, r \in Computes :
        /\ procs[p].op = "compute_bill" /\ procs[p].pc = "done"
        /\ procs[p].result = "no_pricing"
        /\ wallet[procs[p].user].exists
        /\ computes[r].exists /\ computes[r].state = "running"
        /\ computes[r].last_billed_until < now

----------------------------------------------------------------------------
(* Duplicate creates *)

\* C20: whatever the interleaving of two create requests of one
\* resource_id, one is answered created and the other conflict, and exactly
\* one document of that id exists, its log holding exactly one create
\* event.
C20_DuplicateCreateSafe ==
    /\ \A r \in Computes :
          /\ dupes[r] = <<>>
          /\ computes[r].exists
                => Cardinality({i \in 1..Len(computes[r].events) :
                                  computes[r].events[i].type = "create"}) = 1
    /\ ~ \A p \in Procs :
            /\ procs[p].op = "create_compute" /\ procs[p].pc = "done"
            /\ procs[p].result = "ok"

----------------------------------------------------------------------------
(* Repeated deletes *)

\* the step appended a deleted event to the log
DeletedAppended(before, after) ==
    /\ Len(after) = Len(before) + 1
    /\ after[Len(after)].type = "deleted"

\* C21: a delete of a resource that is already deleted changes nothing: once
\* deleted_at (released_at) is set it keeps its value, no further deleted
\* event is appended to a compute or disk, and a released floating IP is left
\* as it was.
C21_DeleteIdempotent ==
    [][/\ \A r \in Computes :
             computes[r].deleted_at # NoTime
             => (/\ computes'[r].deleted_at = computes[r].deleted_at
                 /\ ~DeletedAppended(computes[r].events, computes'[r].events))
       /\ \A r \in Disks :
             disks[r].deleted_at # NoTime
             => (/\ disks'[r].deleted_at = disks[r].deleted_at
                 /\ ~DeletedAppended(disks[r].events, disks'[r].events))
       /\ \A r \in Fips :
             fips[r].released_at # NoTime => fips'[r] = fips[r]]_vars

----------------------------------------------------------------------------
(* Settlement of deliveries by the consumer *)

\* the delivery waits in the batch or in a _process_batch call
InProgress(d) ==
    \/ \E i \in 1..Len(batch) : batch[i] = d
    \/ \E f \in 1..Len(flushes) : \E i \in 1..Len(flushes[f].msgs) :
          flushes[f].msgs[i] = d

\* C22: in batched mode a delivery whose message does not parse (no resource
\* type, resource_id or user_id) is rejected without requeue on its first
\* receipt: once it has been received and its batch is done it is in the
\* DLQ, never back in the queue, acked or left unsettled.
C22_NilRejected ==
    \A d \in Deliveries :
        (/\ deliveries[d].body.kind = "nil"
         /\ deliveries[d].receipts > 0
         /\ ~InProgress(d))
        => deliveries[d].state = "dlq"

\* C23: without batching the per-message logic is the same: a received
\* delivery whose message does not parse is rejected without requeue (it is
\* in the DLQ, never back in the queue), a handled event is acked when its
\* result is success or conflict and is back in the queue otherwise.
C23_DirectSettlement ==
    \A d \in Deliveries :
        /\ (deliveries[d].body.kind = "nil" /\ deliveries[d].receipts > 0)
           => deliveries[d].state = "dlq"
        /\ (/\ deliveries[d].body.kind = "event"
            /\ deliveries[d].receipts > 0
            /\ deliveries[d].state # "unacked")
           => deliveries[d].state =
                 IF Succeeded(deliveries[d].result) THEN "acked" ELSE "ready"

\* C24: in batched mode, when the batch of a handled event is done, its
\* delivery is acked if and only if the handler result of that same delivery
\* was success or conflict, and is back in the queue otherwise, whatever the
\* results of the other deliveries of the batch.
C24_OwnResult ==
    [][\A d \in Deliveries :
          (/\ deliveries[d].body.kind = "event"
           /\ InProgress(d)
           /\ ~InProgress(d)')
          => deliveries'[d].state =
                IF Succeeded(deliveries[d].result) THEN "acked" ELSE "ready"]_vars

\* C25: a delivery whose body is not a JSON object (invalid JSON, bytes
\* that do not decode, or a JSON value that is not an object) is rejected
\* to the DLQ when it is received and is never received again.
C25_UnparseableRejected ==
    \A d \in Deliveries :
        (/\ deliveries[d].body.kind \in {"bad_json", "bad_bytes", "not_object"}
         /\ deliveries[d].receipts > 0)
        => (deliveries[d].state = "dlq" /\ deliveries[d].receipts = 1)

----------------------------------------------------------------------------
(* Flushing of the batch *)

\* the delivery waits in the pending batch
Pending(d) == \E i \in 1..Len(batch) : batch[i] = d

\* the delivery is in a batch given to _process_batch, hence to the callback
Handed(d) ==
    \E f \in 1..Len(flushes) : \E i \in 1..Len(flushes[f].msgs) :
        flushes[f].msgs[i] = d

\* C26: the batch flushes on size or on age: once add has returned the
\* pending batch holds fewer than batch_size deliveries; a tick of the flush
\* loop that flushes hands over the whole pending batch; and while the
\* batcher runs every pending delivery is eventually handed to the
\* processing callback.
C26_BatchFlushes ==
    /\ [](Len(batch) < BatchSize)
    /\ [][(Len(flushes') > Len(flushes) /\ flushes'[Len(flushes')].timer)
            => (batch' = <<>> /\ flushes'[Len(flushes')].msgs = batch)]_vars
    /\ \A d \in Deliveries : Pending(d) ~> Handed(d)

\* a full batch handed over by add is being processed while the flush loop
\* has handed over a later, smaller one
C26_Witness ==
    \E f, g \in 1..Len(flushes) :
        /\ ~flushes[f].timer /\ Len(flushes[f].msgs) = BatchSize
        /\ flushes[g].timer /\ Len(flushes[g].msgs) < BatchSize
        /\ batch = <<>>

----------------------------------------------------------------------------
(* Handlers in flight *)

RECURSIVE HandlersInFlight(_)
\* the handlers that hold a semaphore, over the first n batches in process
HandlersInFlight(n) == IF n = 0 THEN 0 ELSE Running(flushes[n]) + HandlersInFlight(n - 1)

\* C27: at all times the number of message handlers in flight, over all the
\* batches being processed, is at most the semaphore limit.
C27_HandlersBounded == HandlersInFlight(Len(flushes)) <= MaxConcurrent

----------------------------------------------------------------------------
(* The API client's retry loop *)

\* the waits of a request that went through the given number of attempts
\* and is to make another
LinearBackoff(attempts) == [k \in 1..attempts |-> RetryDelay * k]

\* C28: _request ends after at most retry_count attempts: every pass of the
\* loop is one attempt; the loop goes on only after a timeout or a
\* connection error, with a wait of retry_delay x k before attempt k+1; any
\* HTTP response ends the request with that attempt; retry_count timeouts
\* or connection errors in a row end it with the result error; and a request
\* under way always returns.
C28_RequestTerminates ==
    /\ [](request.attempt <= RetryCount)
    /\ [][(request.pc = "attempt" /\ request' # request)
            => /\ request'.attempt = request.attempt + 1
               /\ request'.pc \in {"attempt", "returned"}
               /\ request'.pc = "attempt"
                     => /\ request'.last.kind \in {"timeout", "connect_error"}
                        /\ request'.attempt < RetryCount
                        /\ request'.waits = LinearBackoff(request'.attempt)
               /\ request'.last.kind = "response" => request'.pc = "returned"
               /\ (/\ request'.last.kind \in {"timeout", "connect_error"}
                   /\ request'.attempt = RetryCount)
                     => (request'.pc = "returned" /\ request'.result = "error")]_vars
    /\ (request.pc = "attempt") ~> (request.pc = "returned")

\* a request gave up after retry_count timeouts or connection errors, having
\* waited retry_delay, then twice retry_delay, and so on
C28_Witness ==
    /\ request.pc = "returned"
    /\ request.result = "error"
    /\ request.attempt = RetryCount
    /\ request.last.kind \in {"timeout", "connect_error"}
    /\ request.waits = LinearBackoff(RetryCount - 1)
    /\ Len(request.waits) >= 2

----------------------------------------------------------------------------
(* Classification of responses *)

\* the result the status of a response stands for
StatusResult(status) ==
    IF status = 409 THEN "conflict"
    ELSE IF status = 404 THEN "not_found"
    ELSE IF status >= 400 THEN "error"
    ELSE "success"

\* C29: every HTTP response is classified by its status alone: 409 gives
\* conflict, 404 not_found, any other status of 400 or more error, any
\* status below 400 success; and the delivery of a handled event is acked
\* exactly when the result of its request is success or conflict.
C29_Classification ==
    [][/\ (/\ request.pc = "attempt"
            /\ request'.pc = "returned"
            /\ request'.last.kind = "response")
           => request'.result = StatusResult(request'.last.status)
       /\ \A d \in Deliveries :
             (/\ request.pc = "returned"
              /\ request.delivery = d
              /\ deliveries'[d] # deliveries[d])
             => (deliveries'[d].state = "acked"
                   <=> request.result \in {"success", "conflict"})]_vars

----------------------------------------------------------------------------
(* The event-to-operation map *)

\* the operation the map gives for an event, with the payload value it is
\* called with; unspecified where the map is silent
OperationMap(resource_type, event_type) ==
    IF resource_type = "compute"
    THEN CASE event_type = "create" -> <<"create_compute", {"flavor"}>>
           [] event_type = "delete" -> <<"delete_compute", {}>>
           [] event_type \in {"start", "stop", "update"} -> <<"update_compute", {"state"}>>
           [] event_type = "resize" -> <<"update_compute", {"flavor"}>>
           [] OTHER -> <<"unspecified", {}>>
    ELSE IF resource_type = "disk"
    THEN CASE event_type = "create" -> <<"create_disk", {"size_gb"}>>
           [] event_type = "delete" -> <<"delete_disk", {}>>
           [] event_type = "resize" -> <<"update_disk", {"size_gb"}>>
           [] event_type \in {"attach", "detach"} -> <<"none", {}>>
           [] OTHER -> <<"unspecified", {}>>
    ELSE CASE event_type \in {"create", "allocate"} -> <<"create_floating_ip", {}>>
           [] event_type \in {"delete", "release"} -> <<"release_floating_ip", {}>>
           [] OTHER -> <<"none", {}>>

\* C30: every event that was handled was dispatched by the map: the call
\* made for it is the one the map gives for its resource type and event
\* type, and an event for which the map gives no call made none and
\* succeeded (its delivery is acked).
C30_DispatchByMap ==
    \A d \in Deliveries :
        (deliveries[d].body.kind = "event" /\ deliveries[d].receipts > 0)
        => LET operation == OperationMap(deliveries[d].body.resource_type,
                                         deliveries[d].body.event_type)
           IN  /\ operation[1] # "unspecified" => deliveries[d].call = operation
               /\ operation = <<"none", {}>>
                     => (/\ deliveries[d].state = "acked"
                         /\ deliveries[d].result = "success")

\* a disk attach event was handled without a call and acked
C30_Witness ==
    \E d \in Deliveries :
        /\ deliveries[d].body.kind = "event"
        /\ deliveries[d].body.resource_type = "disk"
        /\ deliveries[d].body.event_type = "attach"
        /\ deliveries[d].receipts > 0
        /\ deliveries[d].call = <<"none", {}>>
        /\ deliveries[d].state = "acked"

----------------------------------------------------------------------------
(* The wallet bootstrap *)

\* C31: the wallet bootstrap is best-effort: whatever ensure_wallet_exists
\* returns or raises, a delivery is settled only after the resource
\* operation of its event was invoked, and it is acked exactly when the
\* response of that operation is success or conflict (a handler that makes
\* no request answers success).
C31_BootstrapBestEffort ==
    [][\A d \in Deliveries :
          (/\ request.pc \in {"wallet", "returned"}
           /\ request.delivery = d
           /\ deliveries'[d].state # "unacked")
          => LET response == IF request.pc = "returned" THEN request.result
                             ELSE "success"
             IN  /\ deliveries'[d].call # <<>>
                 /\ deliveries'[d].state = "acked"
                       <=> response \in {"success", "conflict"}]_vars

\* the wallet check raised (or failed) and the resource operation was
\* invoked all the same and has answered success
C31_Witness ==
    /\ request.pc = "returned"
    /\ request.wallet \in {"raised", "error", "create_error"}
    /\ request.result = "success"
    /\ deliveries[request.delivery].call = <<"create_compute", {"flavor"}>>

----------------------------------------------------------------------------
(* Shutdown of the consumer *)

\* no delivery is received once the shutdown has begun
NoNewDeliveries ==
    [][shutdown # "none"
         => \A d \in Deliveries : deliveries'[d].receipts = deliveries[d].receipts]_vars

\* when the channel is closed nothing is left in the batch or in a
\* _process_batch call, and no delivery is unsettled
DrainedBeforeClose ==
    [](~ChannelOpen =>
          /\ batch = <<>>
          /\ flushes = <<>>
          /\ \A d \in Deliveries : deliveries[d].state # "unacked")

\* no handler starts a request once the HTTP client is closed
NoRequestAfterClientClose ==
    [][~ClientOpen
         => \A f \in 1..Len(flushes) : \A i \in 1..Len(flushes[f].msgs) :
               (f <= Len(flushes') /\ flushes'[f].msgs = flushes[f].msgs)
               => (flushes'[f].handlers[i] = "running"
                     => flushes[f].handlers[i] = "running")]_vars

\* no delivery changes its settlement once the channel is closed
NoSettleAfterChannelClose ==
    [][~ChannelOpen
         => \A d \in Deliveries :
               deliveries[d].state = "unacked" => deliveries'[d].state = "unacked"]_vars

\* C32: the shutdown goes in order: new deliveries stop, the handlers in
\* flight drain and the batcher is flushed, so that every delivery in the
\* batch or in a flush is settled before the channel is closed; then the
\* HTTP client is closed; no handler makes a request after that and no
\* delivery is settled after the channel was closed.
C32_ShutdownInOrder ==
    /\ NoNewDeliveries
    /\ DrainedBeforeClose
    /\ NoRequestAfterClientClose
    /\ NoSettleAfterChannelClose

----------------------------------------------------------------------------
(* Order of application *)

\* C33: billing does not depend on the order in which the messages of a
\* resource are applied: every event of the log that a message produced
\* carries the timestamp of that message, so that the times and types of
\* the log are those of the messages whatever the order and the moment of
\* their application.
C33_UpstreamTimes ==
    \A r \in Computes : \A i \in 2..Len(computes[r].events) :
        \E m \in Messages :
            /\ computes[r].events[i].type = UpdateEvent(m.state, m.flavor).type
            /\ computes[r].events[i].time = m.timestamp

----------------------------------------------------------------------------
(* One event per mutation *)

\* the log grew by one event and kept the events it had
OneAppended(before, after) ==
    /\ Len(after) = Len(before) + 1
    /\ SubSeq(after, 1, Len(before)) = before

\* an update request has been answered in this step
Answered(op) ==
    \E p \in Procs : Idle(p) /\ Done(p)' /\ procs'[p].op = op

\* the request answered in this step was answered not_found
NotFound(op) ==
    \A p \in Procs :
        (Idle(p) /\ Done(p)' /\ procs'[p].op = op) => procs'[p].result = "not_found"

----------------------------------------------------------------------------
(* Credit followed by debit *)

\* the archive ends with a credit and the debit that followed it, and the
\* debit has returned
PairDone(u) ==
    /\ Len(archive[u]) >= 2
    /\ archive[u][Len(archive[u]) - 1].type = "credit"
    /\ archive[u][Len(archive[u]) - 1].reason = "manual"
    /\ archive[u][Len(archive[u])].type = "debit"
    /\ \A p \in Procs : procs[p].pc \in {"idle", "done"}

\* C35: credit(x) followed by debit(x), with nothing in between, brings the
\* balance back to what it was before the credit (the balance the wallet
\* was created with, every earlier pair having done the same) and adds two
\* archive entries whose amounts sum to zero.
C35_CreditDebitCancel ==
    \A u \in Users :
        PairDone(u)
        => /\ wallet[u].balance = ledger[u]
           /\ ledger[u] \in Balances
           /\ archive[u][Len(archive[u]) - 1].amount
                 + archive[u][Len(archive[u])].amount = 0

\* a credit of an amount that is rounded when archived, and its debit
C35_Witness ==
    \E u \in Users :
        /\ PairDone(u)
        /\ archive[u][Len(archive[u]) - 1].amount = format_amount(3)
        /\ archive[u][Len(archive[u]) - 1].balance_after # wallet[u].balance

----------------------------------------------------------------------------
(* A bill is debited once *)

\* the debits of a bill's total the wallet has committed and that are known:
\* the entries of the archive that name the bill, and the debits committed
\* whose entry is still to be appended
BillDebits(b) ==
    Cardinality({i \in 1..Len(archive[bills[b].user_id]) :
                    archive[bills[b].user_id][i].bill = b})
    + Cardinality({p \in Procs : procs[p].pc = "append" /\ procs[p].bill = b})

----------------------------------------------------------------------------
(* No interval is charged twice *)

\* two charges are for one resource and their intervals share some time
Overlap(c, d) ==
    /\ c.type = d.type
    /\ c.resource_id = d.resource_id
    /\ c.since < d.until
    /\ d.since < c.until

----------------------------------------------------------------------------
(* Every delivery of the batcher is settled *)

\* the consumer holds the delivery: received, and neither acked, nacked nor
\* rejected since
Unsettled(d) == deliveries[d].state = "unacked"

\* C38: every delivery handed to the batcher is eventually settled (acked,
\* nacked or rejected), whatever the outcomes of its batch and also when
\* stop() cancels the flush loop during a flush; and it is settled once: a
\* delivery leaves the consumer's hands only by its settlement, and a
\* delivery that is acked or dead-lettered stays so.
C38_SettledOnce ==
    /\ \A d \in Deliveries : Unsettled(d) ~> ~Unsettled(d)
    /\ [][\A d \in Deliveries :
             deliveries[d].state \in {"acked", "dlq"}
             => deliveries'[d].state = deliveries[d].state]_vars

----------------------------------------------------------------------------
(* The balance and the archive agree *)

\* no request is between its first read of the wallet and its response
Quiet == \A p \in Procs : procs[p].pc \in {"idle", "done"}

\* C39: when no wallet operation is in flight, the balance of a wallet is
\* the balance_after of the last entry of its archive, or, the archive
\* being empty, a balance the wallet was created with.
C39_BalanceIsLastEntry ==
    \A u \in Users :
        (Quiet /\ wallet[u].exists)
        => IF archive[u] = <<>>
           THEN wallet[u].balance \in Balances
           ELSE wallet[u].balance = archive[u][Len(archive[u])].balance_after

----------------------------------------------------------------------------
(* The event log and the projection *)

\* C40: under updates handled one at a time, replaying the event log of a
\* compute in order (create and resize set the flavor, running, stopped and
\* deleted set the state) gives the current_flavor and the state its
\* document stores, also after an update that sets both in one call.
C40_LogMatchesProjection ==
    \A r \in Computes :
        computes[r].exists
        => Replay(computes[r].events, now, NoFlavor, NoState)
             = [flavor |-> computes[r].current_flavor,
                state |-> computes[r].state]

====
